---- MODULE Spec2Model ----
(***************************************************************************)
(* Verification model of the angstrom node core:                           *)
(*   - UniswapPoolManager (matching-engine/src/cfmm/uniswap/pool_manager.rs)*)
(*   - calculate_reward   (matching-engine/src/cfmm/uniswap/tob.rs)        *)
(*   - WeightedRoundRobin (consensus/src/leader_selection.rs)              *)
(***************************************************************************)
EXTENDS Integers, Sequences, FiniteSets, TLC

(***************************************************************************)
(* Bounds of the model                                                     *)
(***************************************************************************)
MaxBlock == 3          \* highest block number the chain provider delivers
MaxHeads == 3          \* head notifications delivered to one sync task
MaxReaders == 1        \* read guards other tasks hold at one time
MaxCalls == 2          \* subscribe/watch calls issued by one caller
MaxTarget == 3         \* highest block number passed to choose_proposer
MaxOps == 2            \* add_validator / remove_validator calls on one selector
MaxJoinRounds == 8     \* rounds of simulate_rounds on one selector
MaxPower == 2          \* highest voting power of a validator
MaxAmountIn == 6       \* highest input amount of a top-of-block order
MaxAmountOut == 3      \* highest output amount of a top-of-block order
MaxStepIn == 3         \* highest input amount one swap step reports
TickSpan == 2          \* valid ticks are -TickSpan .. TickSpan
U256Bits == 6          \* width of the unsigned integers standing for U256
MaxExtra == 2          \* blocks synced beyond the capacity of a pool's history
MaxReorgDepth == 1     \* how far below the head a reorg of the long run reaches
MaxNotifications == 2  \* canonical-state notifications delivered to one manager
MaxEvents == 2         \* consensus events delivered to one manager
U128Bits == 3          \* width of the integers standing for u128 and i128
MaxPositions == 3       \* modify_position calls applied to one pool
MaxSwap == 3           \* highest amount of a simulated swap or of a swap log

(***************************************************************************)
(* Generic helpers                                                         *)
(***************************************************************************)
Min(a, b) == IF a <= b THEN a ELSE b

Max(a, b) == IF a >= b THEN a ELSE b

Abs(a) == IF a >= 0 THEN a ELSE -a

RECURSIVE Gcd(_, _)
Gcd(a, b) == IF b = 0 THEN Abs(a) ELSE Gcd(b, a % b)

RECURSIVE SumOver(_, _)
SumOver(f, S) ==
    IF S = {} THEN 0
    ELSE LET x == CHOOSE y \in S : TRUE IN f[x] + SumOver(f, S \ {x})

(***************************************************************************)
(* Pool manager: state                                                     *)
(***************************************************************************)
VARIABLES
    pools,              \* UniswapPoolManager.pools: address -> pool state
    pool_lock,          \* per pool RwLock: "free" or "sync" (write guard of the sync task)
    readers,            \* per pool RwLock: number of read guards held
    state_change_cache, \* StateChangeCache: address -> deque, index 1 is the front
    cache_lock,         \* RwLock<StateChangeCache> write guard held by the sync task
    sync_started,       \* AtomicBool sync_started
    spawned,            \* number of sync tasks spawned by handle_state_changes
    call_pc,            \* position of each subscribe/watch caller
    call_kind,          \* "subscribe" or "watch" for the call in progress
    call_result,        \* sequence of results each caller has received
    pm_pc,              \* position of the sync task in its loop
    pm_err,             \* error the sync task ended with ("" while none)
    last_synced_block,  \* local last_synced_block of the sync task
    chain_head,         \* chain_head_block_number of the iteration in progress
    todo,               \* pools (unwind) or addresses (apply) still to visit
    cur,                \* address whose guard the sync task currently holds
    logs_by_address,    \* into_group_map() of the fetched logs
    has_tx,             \* pool_updated_tx is Some
    chan,               \* bounded mpsc channel contents
    rx_open,            \* the Receiver has not been dropped
    canon,              \* chain data provider: block -> logs of the canonical block
    tip,                \* chain data provider: canonical head
    heads,              \* notifications delivered so far
    in_reorg,           \* pools unwound in this iteration and not yet resynced
    fetched,            \* <<from_block, to_block>> of the last get_logs call
                        \* (the block the pools were loaded at before the first call)
    sent                \* updates accepted by the channel for the head in progress

VARIABLES
    validators,         \* WeightedRoundRobin.validators: peer_id -> [voting_power, priority]
                        \* (priority is the numerator of a fraction over pden)
    pden,               \* common denominator of all priorities (> 0)
    wrr_block_number,   \* WeightedRoundRobin.block_number
    penalty,            \* new_joiner_penalty_factor as <<numerator, denominator>>
    wrr_pc,             \* "idle", "rounds" (inside choose_proposer), "wrapped", "panicked"
    wrr_target,         \* argument of the choose_proposer call in progress
    rounds_to_catchup,  \* local of choose_proposer
    round_i,            \* loop counter of choose_proposer
    leader,             \* local of choose_proposer: Option<PeerId>
    ret,                \* value returned by the last finished choose_proposer call
    wrr_ops,            \* add_validator / remove_validator calls made so far
    validators2,        \* a second WeightedRoundRobin instance: validators
    pden2,              \* second instance: denominator of its priorities
    wrr_block_number2,  \* second instance: block_number
    ret2,               \* second instance: value returned by its last call
    stats               \* test_round_robin_simulation: selections counted per peer

VARIABLES
    tob_pc,             \* position inside calculate_reward: "unused", "entry", "swap",
                        \* "bribe", "sweep", "donate", "done", "failed", "panicked"
    tob,                \* argument tob: [is_bid, order |-> [amountIn, amountOut]]
    amm,                \* argument amm: [current_tick, sqrt_price_x96, range]
    tick_motion,        \* local: 1 for a bid, -1 for an ask
    current_tick,       \* local of the swap loop
    current_price,      \* local of the swap loop (a sqrt price)
    expected_out,       \* local: output still to buy, as a negative I256
    total_cost,         \* local: swap amounts in plus fees so far
    stakes,             \* local: sequence of [avg_price, end_price, amount_out]
    bribe,              \* local: amountIn - total_cost
    rem_bribe,          \* local of the sweep
    cur_q,              \* local of the sweep
    filled_price,       \* local of the sweep
    stake_iter,         \* index of the stake the sweep takes next
    partial_dprice,     \* local of the sweep's else branch: Option<Ray>
    reward_t,           \* local: sum of the donations
    outcome,            \* returned value: Option<ToBOutcome>
    tob_err             \* message of the returned error, "" if none

VARIABLES
    cm_pc,                  \* position of the manager's poll: "unused", "pending",
                            \* "poll_event", "poll_state"; "panicked", "hung" end it
    current_height,         \* ConsensusManager.current_height
    state_transition,       \* ConsensusManager.state_transition: [height, leader, state,
                            \* pre_proposals, proposal]
    broadcasted_messages,   \* ConsensusManager.broadcasted_messages
    network,                \* messages handed to the network handle: [to, msg]
    canon_seen,             \* items taken from canonical_block_stream so far
    events_seen             \* events taken from strom_consensus_event so far

VARIABLES
    sim_pool,           \* an EnhancedUniswapPool: [token_a, token_b, sqrt_price, tick,
                        \* liquidity, fee, tick_spacing, ticks, tick_bitmap,
                        \* sync_swap_with_sim]
    overflow_checks,    \* whether the build panics on integer overflow (else it wraps)
    sim_pc,             \* "unused", "idle" (no call made), "returned", "panicked"
    sim_ret,            \* what the call on the pool returned
    sim_run,            \* the arguments and loop locals of a _simulate_swap in progress
    sim_calls           \* modify_position calls applied to the pool so far

VARIABLES
    cons_pc,            \* consumer of the update channel: "none" (there is none), "recv",
                        \* "lock" (about to take the read lock), "read" (holds it)
    cons_upd            \* the (address, block) update the consumer received last

VARIABLES
    canonical_block_stream, \* notifications queued on ConsensusManager.canonical_block_stream
    strom_consensus_event,  \* events queued on ConsensusManager.strom_consensus_event
    timer,                  \* timer of the round's live phase: "armed", "fired", "off"
    wakers,                 \* sources that hold the waker of the last poll
    woken                   \* the executor has the manager scheduled for a poll

VARIABLES
    state_json,         \* contents of ./state.json: None while the file does not exist
    saved,              \* the selector state at the last save_state call, None before it
    loaded,             \* the WeightedRoundRobin the last new(..) call returned
    float_roundtrip     \* whether the build parses JSON floats exactly (else best effort)

tobvars == <<tob_pc, tob, amm, tick_motion, current_tick, current_price, expected_out,
             total_cost, stakes, bribe, rem_bribe, cur_q, filled_price, stake_iter,
             partial_dprice, reward_t, outcome, tob_err>>

wrrvars == <<validators, pden, wrr_block_number, penalty, wrr_pc, wrr_target,
             rounds_to_catchup, round_i, leader, ret, wrr_ops, validators2, pden2,
             wrr_block_number2, ret2, stats>>

cmvars == <<cm_pc, current_height, state_transition, broadcasted_messages, network,
            canon_seen, events_seen>>

swvars == <<sim_pool, overflow_checks, sim_pc, sim_ret, sim_run, sim_calls>>

pmvars == <<pools, pool_lock, readers, state_change_cache, cache_lock, sync_started,
            spawned, call_pc, call_kind, call_result, pm_pc, pm_err, last_synced_block,
            chain_head, todo, cur, logs_by_address, has_tx, chan, rx_open, canon, tip,
            heads, in_reorg, fetched, sent>>

convars == <<cons_pc, cons_upd>>

livevars == <<canonical_block_stream, strom_consensus_event, timer, wakers, woken>>

fsvars == <<state_json, saved, loaded, float_roundtrip>>

vars == <<pmvars, wrrvars, tobvars, cmvars, swvars, convars, livevars, fsvars>>

(***************************************************************************)
(* Pool manager: constants and pure helpers                                *)
(***************************************************************************)
PoolAddrs == {"p1", "p2"}

ExtAddr == "ext"

HistoryCapacity == 150

StateChangeBuffer == 1

Some(x) == <<x>>

None == <<>>

Log(a, b, k) == [address |-> a, block |-> b, kind |-> k]

\* The logs a canonical block b may carry, in emission order.
BlockLogs(b) ==
    { <<Log("p1", b, "mint"), Log("p1", b, "swap")>>,
      <<Log(ExtAddr, b, "swap"), Log("p2", b, "swap"), Log("p1", b, "burn")>>,
      <<Log("p2", b, "swap"), Log("p2", b, "bad")>> }

NewPool(a) == [address |-> a, state |-> <<>>]

\* EnhancedUniswapV3Pool::sync_from_log: dispatch on the event signature.
sync_from_log(pool, log) ==
    IF log.kind \in {"burn", "mint", "swap"}
    THEN [ok |-> TRUE,
          pool |-> [pool EXCEPT !.state = Append(@, [block |-> log.block, kind |-> log.kind])]]
    ELSE [ok |-> FALSE, pool |-> pool]

StateChange(state_change, block_number) ==
    [state_change |-> state_change, block_number |-> block_number]

\* Variant: the loop stops at an entry tagged with the block to unwind itself.
RECURSIVE UnwindLoopStrict(_, _, _)
UnwindLoopStrict(pool, cache, block_to_unwind) ==
    IF cache = <<>>
    THEN [err |-> "NoStateChangesInCache", pool |-> pool, cache |-> cache]
    ELSE IF cache[1].block_number > block_to_unwind
         THEN UnwindLoopStrict(IF cache[1].state_change # None
                               THEN cache[1].state_change[1] ELSE pool,
                               Tail(cache), block_to_unwind)
         ELSE [err |-> "", pool |-> pool, cache |-> cache]

\* The loop of unwind_state_changes over one pool's deque (front = index 1).
RECURSIVE UnwindLoop(_, _, _)
UnwindLoop(pool, cache, block_to_unwind) ==
    IF cache = <<>>
    THEN [err |-> "NoStateChangesInCache", pool |-> pool, cache |-> cache]
    ELSE IF cache[1].block_number >= block_to_unwind
         THEN UnwindLoop(IF cache[1].state_change # None
                         THEN cache[1].state_change[1] ELSE pool,
                         Tail(cache), block_to_unwind)
         ELSE [err |-> "", pool |-> pool, cache |-> cache]

\* Variant: a pool without history, or whose history runs out, is left as it is.
unwind_state_changes_lenient(pool, scc, block_to_unwind) ==
    IF pool.address \in DOMAIN scc
    THEN LET r == UnwindLoop(pool, scc[pool.address], block_to_unwind)
         IN [err |-> "", pool |-> r.pool,
             scc |-> [scc EXCEPT ![pool.address] = r.cache]]
    ELSE [err |-> "", pool |-> pool, scc |-> scc]

unwind_state_changes(pool, scc, block_to_unwind) ==
    IF pool.address \in DOMAIN scc
    THEN LET r == UnwindLoop(pool, scc[pool.address], block_to_unwind)
         IN [err |-> r.err, pool |-> r.pool,
             scc |-> [scc EXCEPT ![pool.address] = r.cache]]
    ELSE [err |-> "NoStateChangesInCache", pool |-> pool, scc |-> scc]

\* Variant: nothing is evicted; push_front on a full deque returns CapacityError
\* and leaves the deque as it is.
add_state_change_to_cache_no_evict(scc, state_change, address) ==
    LET cache == IF address \in DOMAIN scc THEN scc[address] ELSE <<>>
        full == Len(cache) >= HistoryCapacity
    IN [err |-> IF full THEN "CapacityError" ELSE "",
        scc |-> [a \in (DOMAIN scc) \cup {address} |->
                    IF a = address
                    THEN (IF full THEN cache ELSE <<state_change>> \o cache)
                    ELSE scc[a]]]

\* entry(address).or_default(), pop_back() when full, push_front().
add_state_change_to_cache(scc, state_change, address) ==
    LET cache == IF address \in DOMAIN scc THEN scc[address] ELSE <<>>
        room == IF Len(cache) >= HistoryCapacity
                THEN SubSeq(cache, 1, Len(cache) - 1) ELSE cache
        pushed == <<state_change>> \o room
    IN [err |-> IF Len(pushed) > HistoryCapacity THEN "CapacityError" ELSE "",
        scc |-> [a \in (DOMAIN scc) \cup {address} |->
                    IF a = address THEN pushed ELSE scc[a]]]

\* The for loop of handle_state_changes_from_logs: stops at the first failing log.
RECURSIVE ApplyLogs(_, _)
ApplyLogs(pool, logs) ==
    IF logs = <<>> THEN [err |-> "", pool |-> pool]
    ELSE LET r == sync_from_log(pool, Head(logs))
         IN IF r.ok THEN ApplyLogs(r.pool, Tail(logs))
            ELSE [err |-> "InvalidEventSignature", pool |-> r.pool]

handle_state_changes_from_logs(pool, scc, logs, block_number) ==
    LET a == ApplyLogs(pool, logs)
    IN IF a.err # ""
       THEN [err |-> a.err, pool |-> a.pool, scc |-> scc]
       ELSE LET c == add_state_change_to_cache(scc,
                         StateChange(Some(a.pool), block_number), pool.address)
            IN [err |-> c.err, pool |-> a.pool, scc |-> c.scc]

\* provider.get_logs(from_block..to_block): the canonical logs in emission order.
RECURSIVE get_logs(_, _, _)
get_logs(chain, from_block, to_block) ==
    IF from_block > to_block THEN <<>>
    ELSE chain[from_block] \o get_logs(chain, from_block + 1, to_block)

\* Variant: every managed pool has a group, empty when it has no log.
into_group_map_all(logs) ==
    [a \in {logs[i].address : i \in DOMAIN logs} \cup PoolAddrs |->
        SelectSeq(logs, LAMBDA l : l.address = a)]

\* Variant: each group holds its logs newest first.
into_group_map_rev(logs) ==
    [a \in {logs[i].address : i \in DOMAIN logs} |->
        LET g == SelectSeq(logs, LAMBDA l : l.address = a)
        IN [i \in 1..Len(g) |-> g[Len(g) + 1 - i]]]

\* itertools into_group_map keyed by log.address: each group keeps the input order.
into_group_map(logs) ==
    [a \in {logs[i].address : i \in DOMAIN logs} |->
        SelectSeq(logs, LAMBDA l : l.address = a)]

\* Variant: the guard outlives the loop body.
drop_guard_keep(lock, a) == lock

\* pool_guard goes out of scope at the end of the loop body: the write lock is free.
drop_guard(lock, a) == [lock EXCEPT ![a] = "free"]

\* Variant: the flag is compared but the new value is not stored.
compare_exchange_no_store(flag, current, new) ==
    [ok |-> flag = current, flag |-> flag]

\* AtomicBool::compare_exchange(current, new)
compare_exchange(flag, current, new) ==
    IF flag = current THEN [ok |-> TRUE, flag |-> new] ELSE [ok |-> FALSE, flag |-> flag]

Callers == {"c1", "c2", "c3"}

InitialSynced == {0}

(***************************************************************************)
(* Pool manager: construction                                              *)
(***************************************************************************)
\* UniswapPoolManager::new(pools, latest_synced_block, state_change_buffer, provider)
PMNew(latest_synced_block) ==
    /\ pools = [a \in PoolAddrs |-> NewPool(a)]
    /\ pool_lock = [a \in PoolAddrs |-> "free"]
    /\ readers = [a \in PoolAddrs |-> 0]
    /\ state_change_cache = << >>
    /\ cache_lock = FALSE
    /\ last_synced_block = latest_synced_block
    /\ chain_head = latest_synced_block
    /\ todo = {}
    /\ cur = "p1"
    /\ logs_by_address = << >>
    /\ chan = <<>>
    /\ rx_open = TRUE
    /\ canon = [b \in 0..(MaxBlock + 1) |-> <<>>]
    /\ tip = latest_synced_block
    /\ heads = 0
    /\ in_reorg = {}
    /\ fetched = <<latest_synced_block, latest_synced_block>>
    /\ sent = <<>>
    /\ pm_err = ""

\* A selector that is not used: no validators, no call made.
WRRUnused ==
    /\ validators = << >>
    /\ pden = 1
    /\ wrr_block_number = 0
    /\ penalty = <<9, 8>>
    /\ wrr_pc = "idle"
    /\ wrr_target = 0
    /\ rounds_to_catchup = 0
    /\ round_i = 0
    /\ leader = None
    /\ ret = None
    /\ wrr_ops = 0
    /\ validators2 = << >>
    /\ pden2 = 1
    /\ wrr_block_number2 = 0
    /\ ret2 = None
    /\ stats = << >>

\* calculate_reward has not been called.
ToBUnused ==
    /\ tob_pc = "unused"
    /\ tob = [is_bid |-> TRUE, order |-> [amountIn |-> 0, amountOut |-> 0]]
    /\ amm = [current_tick |-> 0, sqrt_price_x96 |-> 0,
              range |-> [lower_tick |-> 0, upper_tick |-> 0, liquidity |-> 0]]
    /\ tick_motion = 0
    /\ current_tick = 0
    /\ current_price = 0
    /\ expected_out = 0
    /\ total_cost = 0
    /\ stakes = << >>
    /\ bribe = 0
    /\ rem_bribe = 0
    /\ cur_q = 0
    /\ filled_price = 0
    /\ stake_iter = 0
    /\ partial_dprice = None
    /\ reward_t = 0
    /\ outcome = None
    /\ tob_err = ""

\* No consensus manager has been constructed.
CMUnused ==
    /\ cm_pc = "unused"
    /\ current_height = 0
    /\ state_transition = [height |-> 0, leader |-> "", state |-> "BidSubmission",
                           pre_proposals |-> << >>, proposal |-> None]
    /\ broadcasted_messages = {}
    /\ network = << >>
    /\ canon_seen = 0
    /\ events_seen = 0

\* No _simulate_swap is in progress.
NoRun ==
    [zero_for_one |-> FALSE, exact_input |-> FALSE, amount_specified |-> 0,
     sqrt_price_limit_x96 |-> 0,
     st |-> [err |-> "", amount_specified_remaining |-> 0, amount_calculated |-> 0,
             sqrt_price_x_96 |-> 0, tick |-> 0, liquidity |-> 0]]

\* No pool has been set up for swap simulation.
SWUnused ==
    /\ sim_pool = [token_a |-> "", token_b |-> "", sqrt_price |-> 0, tick |-> 0,
                   liquidity |-> 0, fee |-> 0, tick_spacing |-> 0, ticks |-> << >>,
                   tick_bitmap |-> {},
                   sync_swap_with_sim |-> FALSE]
    /\ overflow_checks = FALSE
    /\ sim_pc = "unused"
    /\ sim_ret = [call |-> "", err |-> "", amount0 |-> 0, amount1 |-> 0]
    /\ sim_run = NoRun
    /\ sim_calls = 0

\* A manager on which no subscribe/watch call has been made yet.
ConUnused ==
    /\ cons_pc = "none"
    /\ cons_upd = None

FSUnused ==
    /\ state_json = None
    /\ saved = None
    /\ loaded = None
    /\ float_roundtrip = FALSE

LiveUnused ==
    /\ canonical_block_stream = <<>>
    /\ strom_consensus_event = <<>>
    /\ timer = "off"
    /\ wakers = {}
    /\ woken = FALSE

PMUnused ==
    /\ PMNew(0)
    /\ sync_started = FALSE
    /\ spawned = 0
    /\ call_pc = [c \in Callers |-> "idle"]
    /\ call_kind = [c \in Callers |-> "watch"]
    /\ call_result = [c \in Callers |-> <<>>]
    /\ pm_pc = "not_spawned"
    /\ has_tx = FALSE

InitStart ==
    /\ ToBUnused
    /\ FSUnused
    /\ LiveUnused
    /\ ConUnused
    /\ SWUnused
    /\ CMUnused
    /\ WRRUnused
    /\ PMUnused

\* A manager whose sync task has been spawned by caller c1.
InitPM ==
    /\ ToBUnused
    /\ FSUnused
    /\ LiveUnused
    /\ ConUnused
    /\ SWUnused
    /\ CMUnused
    /\ WRRUnused
    /\ \E l \in InitialSynced : PMNew(l)
    /\ sync_started = TRUE
    /\ spawned = 1
    /\ call_pc = [c \in Callers |-> "idle"]
    /\ \E k \in {"subscribe", "watch"} :
          /\ call_kind = [c \in Callers |-> k]
          /\ has_tx = (k = "subscribe")
    /\ call_result = [c \in Callers |-> IF c = "c1" THEN <<"Ok">> ELSE <<>>]
    /\ pm_pc = "next_block"

(***************************************************************************)
(* subscribe_state_changes / watch_state_changes                           *)
(***************************************************************************)
UNCHANGED_sync == UNCHANGED <<pools, pool_lock, readers, state_change_cache, cache_lock,
                              pm_err, last_synced_block, chain_head, todo, cur,
                              logs_by_address, chan, rx_open, canon, tip, heads,
                              in_reorg, fetched, sent, wrrvars, tobvars, cmvars, swvars, convars, livevars, fsvars>>

\* The compare_exchange at the head of subscribe_state_changes / watch_state_changes.
CallStart(c, kind) ==
    /\ call_pc[c] = "idle"
    /\ Len(call_result[c]) < MaxCalls
    /\ LET cas == compare_exchange(sync_started, FALSE, TRUE)
       IN /\ sync_started' = cas.flag
          /\ IF cas.ok
             THEN /\ call_pc' = [call_pc EXCEPT ![c] = "handle"]
                  /\ call_kind' = [call_kind EXCEPT ![c] = kind]
                  /\ UNCHANGED call_result
             ELSE /\ call_result' = [call_result EXCEPT
                                        ![c] = Append(@, "SyncAlreadyStarted")]
                  /\ UNCHANGED <<call_pc, call_kind>>
    /\ UNCHANGED <<spawned, pm_pc, has_tx>>
    /\ UNCHANGED_sync

\* handle_state_changes up to tokio::spawn: the winner builds the filter and spawns.
CallSpawn(c) ==
    /\ call_pc[c] = "handle"
    /\ \E a \in PoolAddrs : pool_lock[a] = "free"
    /\ spawned' = spawned + 1
    /\ pm_pc' = "next_block"
    /\ has_tx' = (call_kind[c] = "subscribe")
    /\ call_result' = [call_result EXCEPT ![c] = Append(@, "Ok")]
    /\ call_pc' = [call_pc EXCEPT ![c] = "idle"]
    /\ UNCHANGED <<sync_started, call_kind>>
    /\ UNCHANGED_sync

NextStart ==
    \/ \E c \in Callers, kind \in {"subscribe", "watch"} : CallStart(c, kind)
    \/ \E c \in Callers : CallSpawn(c)

(***************************************************************************)
(* The sync task spawned by handle_state_changes                           *)
(***************************************************************************)
UNCHANGED_calls == UNCHANGED <<sync_started, spawned, call_pc, call_kind, call_result,
                               has_tx, wrrvars, tobvars, cmvars, swvars, convars, livevars, fsvars>>

\* The chain data provider moves its canonical head to h: a higher head appends
\* blocks, a head at or below the tip replaces block h and drops what followed.
ChainMoves(h) ==
    /\ tip' = h
    /\ IF h > tip
       THEN \E f \in [(tip + 1)..h -> UNION {BlockLogs(b) : b \in (tip + 1)..h}] :
               /\ \A b \in (tip + 1)..h : f[b] \in BlockLogs(b)
               /\ canon' = [b \in DOMAIN canon |->
                               IF b \in (tip + 1)..h THEN f[b] ELSE canon[b]]
       ELSE \E l \in BlockLogs(h) :
               canon' = [b \in DOMAIN canon |->
                            IF b = h THEN l ELSE IF b > h THEN <<>> ELSE canon[b]]

\* block_stream.next() yields Some(Some(h)); the reorg test of the loop body.
RecvBlock(h) ==
    /\ pm_pc = "next_block"
    /\ heads < MaxHeads
    /\ heads' = heads + 1
    /\ ChainMoves(h)
    /\ chain_head' = h
    /\ IF h <= last_synced_block
       THEN /\ cache_lock' = TRUE
            /\ todo' = PoolAddrs
            /\ pm_pc' = "unwind_lock"
       ELSE /\ pm_pc' = "get_logs"
            /\ UNCHANGED <<cache_lock, todo>>
    /\ UNCHANGED <<pools, pool_lock, readers, state_change_cache, pm_err, last_synced_block,
                   cur, logs_by_address, chan, rx_open, in_reorg, fetched, sent>>
    /\ UNCHANGED_calls

\* block_stream.next() yields Some(None): BlockNumberNotFound ends the task.
RecvNoNumber ==
    /\ pm_pc = "next_block"
    /\ pm_pc' = "failed"
    /\ pm_err' = "BlockNumberNotFound"
    /\ UNCHANGED <<pools, pool_lock, readers, state_change_cache, cache_lock,
                   last_synced_block, chain_head, todo, cur, logs_by_address, chan,
                   rx_open, canon, tip, heads, in_reorg, fetched, sent>>
    /\ UNCHANGED_calls

\* block_stream.next() yields None: the loop ends and the task returns Ok(()).
StreamEnd ==
    /\ pm_pc = "next_block"
    /\ pm_pc' = "done"
    /\ UNCHANGED <<pools, pool_lock, readers, state_change_cache, cache_lock, pm_err,
                   last_synced_block, chain_head, todo, cur, logs_by_address, chan,
                   rx_open, canon, tip, heads, in_reorg, fetched, sent>>
    /\ UNCHANGED_calls

\* for pool in pools.values(): pool.write().await
UnwindLock(a) ==
    /\ pm_pc = "unwind_lock"
    /\ a \in todo
    /\ pool_lock[a] = "free"
    /\ readers[a] = 0
    /\ pool_lock' = [pool_lock EXCEPT ![a] = "sync"]
    /\ cur' = a
    /\ in_reorg' = in_reorg \cup {a}
    /\ pm_pc' = "unwind"
    /\ UNCHANGED <<pools, readers, state_change_cache, cache_lock, pm_err,
                   last_synced_block, chain_head, todo, logs_by_address, chan, rx_open,
                   canon, tip, heads, fetched, sent>>
    /\ UNCHANGED_calls

\* Self::unwind_state_changes(&mut pool_guard, &mut state_change_cache, head)?
\* followed by the drop of pool_guard at the end of the loop body.
Unwind ==
    /\ pm_pc = "unwind"
    /\ LET r == unwind_state_changes(pools[cur], state_change_cache, chain_head)
           rest == todo \ {cur}
       IN /\ pools' = [pools EXCEPT ![cur] = r.pool]
          /\ state_change_cache' = r.scc
          /\ pool_lock' = drop_guard(pool_lock, cur)
          /\ IF r.err # ""
             THEN /\ pm_pc' = "failed"
                  /\ pm_err' = r.err
                  /\ cache_lock' = FALSE
                  /\ in_reorg' = {}
                  /\ UNCHANGED <<todo, last_synced_block>>
             ELSE /\ todo' = rest
                  /\ UNCHANGED <<pm_err, in_reorg>>
                  /\ IF rest = {}
                     THEN /\ cache_lock' = FALSE
                          /\ last_synced_block' = chain_head - 1
                          /\ pm_pc' = "get_logs"
                     ELSE /\ pm_pc' = "unwind_lock"
                          /\ UNCHANGED <<cache_lock, last_synced_block>>
    /\ UNCHANGED <<readers, chain_head, cur, logs_by_address, chan, rx_open, canon, tip,
                   heads, fetched, sent>>
    /\ UNCHANGED_calls

\* provider.get_logs(filter.from_block(last_synced_block + 1).to_block(head)).await?
\* and the grouping of the result by address.
GetLogs ==
    /\ pm_pc = "get_logs"
    /\ LET from_block == last_synced_block + 1
           logs == get_logs(canon, from_block, chain_head)
       IN /\ fetched' = <<from_block, chain_head>>
          /\ sent' = <<>>
          /\ logs_by_address' = into_group_map(logs)
          /\ todo' = DOMAIN into_group_map(logs)
    /\ pm_pc' = "apply_lock"
    /\ UNCHANGED <<pools, pool_lock, readers, state_change_cache, cache_lock, pm_err,
                   last_synced_block, chain_head, cur, chan, rx_open, canon, tip, heads,
                   in_reorg>>
    /\ UNCHANGED_calls

\* provider.get_logs fails: the ? operator ends the task with the transport error.
GetLogsErr ==
    /\ pm_pc = "get_logs"
    /\ pm_pc' = "failed"
    /\ pm_err' = "TransportError"
    /\ in_reorg' = {}
    /\ UNCHANGED <<pools, pool_lock, readers, state_change_cache, cache_lock,
                   last_synced_block, chain_head, todo, cur, logs_by_address, chan,
                   rx_open, canon, tip, heads, fetched, sent>>
    /\ UNCHANGED_calls

\* for (addr, logs) in logs_by_address: an address that is no managed pool is skipped.
ApplySkip(a) ==
    /\ pm_pc = "apply_lock"
    /\ a \in todo
    /\ a \notin PoolAddrs
    /\ todo' = todo \ {a}
    /\ UNCHANGED <<pools, pool_lock, readers, state_change_cache, cache_lock, pm_pc, pm_err,
                   last_synced_block, chain_head, cur, logs_by_address, chan, rx_open,
                   canon, tip, heads, in_reorg, fetched, sent>>
    /\ UNCHANGED_calls

\* for (addr, logs) in logs_by_address: pool.write().await
ApplyLock(a) ==
    /\ pm_pc = "apply_lock"
    /\ a \in todo
    /\ a \in PoolAddrs
    /\ pool_lock[a] = "free"
    /\ readers[a] = 0
    /\ pool_lock' = [pool_lock EXCEPT ![a] = "sync"]
    /\ cur' = a
    /\ pm_pc' = "apply"
    /\ UNCHANGED <<pools, readers, state_change_cache, cache_lock, pm_err,
                   last_synced_block, chain_head, todo, logs_by_address, chan, rx_open,
                   canon, tip, heads, in_reorg, fetched, sent>>
    /\ UNCHANGED_calls

\* state_change_cache.write().await; handle_state_changes_from_logs(..)?; without a
\* sender both guards drop at the end of the loop body, with one the send comes first.
Apply ==
    /\ pm_pc = "apply"
    /\ LET r == handle_state_changes_from_logs(pools[cur], state_change_cache,
                                               logs_by_address[cur], chain_head)
       IN /\ pools' = [pools EXCEPT ![cur] = r.pool]
          /\ state_change_cache' = r.scc
          /\ IF r.err # ""
             THEN /\ pm_pc' = "failed"
                  /\ pm_err' = r.err
                  /\ pool_lock' = drop_guard(pool_lock, cur)
                  /\ cache_lock' = FALSE
                  /\ in_reorg' = {}
                  /\ UNCHANGED todo
             ELSE /\ UNCHANGED pm_err
                  /\ in_reorg' = in_reorg \ {cur}
                  /\ IF has_tx
                     THEN /\ pm_pc' = "send"
                          /\ cache_lock' = TRUE
                          /\ UNCHANGED <<pool_lock, todo>>
                     ELSE /\ pm_pc' = "apply_lock"
                          /\ pool_lock' = drop_guard(pool_lock, cur)
                          /\ cache_lock' = FALSE
                          /\ todo' = todo \ {cur}
    /\ UNCHANGED <<readers, last_synced_block, chain_head, cur, logs_by_address, chan,
                   rx_open, canon, tip, heads, fetched, sent>>
    /\ UNCHANGED_calls

\* tx.send((pool_guard.address(), head)).await .ok(): waits for channel capacity, a
\* closed channel is logged and ignored; then both guards drop.
Send ==
    /\ pm_pc = "send"
    /\ \/ ~rx_open
       \/ Len(chan) < StateChangeBuffer
    /\ chan' = IF rx_open THEN Append(chan, <<pools[cur].address, chain_head>>) ELSE chan
    /\ sent' = IF rx_open THEN Append(sent, <<pools[cur].address, chain_head>>) ELSE sent
    /\ pool_lock' = drop_guard(pool_lock, cur)
    /\ cache_lock' = FALSE
    /\ todo' = todo \ {cur}
    /\ pm_pc' = "apply_lock"
    /\ UNCHANGED <<pools, readers, state_change_cache, pm_err, last_synced_block,
                   chain_head, cur, logs_by_address, rx_open, canon, tip, heads, in_reorg,
                   fetched>>
    /\ UNCHANGED_calls

\* The for loop over logs_by_address is exhausted: last_synced_block = head.
EndBlock ==
    /\ pm_pc = "apply_lock"
    /\ todo = {}
    /\ last_synced_block' = chain_head
    /\ in_reorg' = {}
    /\ pm_pc' = "next_block"
    /\ UNCHANGED <<pools, pool_lock, readers, state_change_cache, cache_lock, pm_err,
                   chain_head, todo, cur, logs_by_address, chan, rx_open, canon, tip, heads,
                   fetched, sent>>
    /\ UNCHANGED_calls

(***************************************************************************)
(* Other tasks: pool readers and the consumer of the update channel        *)
(***************************************************************************)
\* pool(address) / blocking_pool(address) / get_market_snapshot: take a read guard.
ReadLock(a) ==
    /\ pool_lock[a] = "free"
    /\ SumOver(readers, PoolAddrs) < MaxReaders
    /\ readers' = [readers EXCEPT ![a] = @ + 1]
    /\ UNCHANGED <<pools, pool_lock, state_change_cache, cache_lock, pm_pc, pm_err,
                   last_synced_block, chain_head, todo, cur, logs_by_address, chan,
                   rx_open, canon, tip, heads, in_reorg, fetched, sent>>
    /\ UNCHANGED_calls

\* The read guard is dropped.
ReadUnlock(a) ==
    /\ readers[a] > 0
    /\ readers' = [readers EXCEPT ![a] = @ - 1]
    /\ UNCHANGED <<pools, pool_lock, state_change_cache, cache_lock, pm_pc, pm_err,
                   last_synced_block, chain_head, todo, cur, logs_by_address, chan,
                   rx_open, canon, tip, heads, in_reorg, fetched, sent>>
    /\ UNCHANGED_calls

\* The holder of the Receiver takes one (address, block) update.
Recv ==
    /\ rx_open
    /\ chan # <<>>
    /\ chan' = Tail(chan)
    /\ UNCHANGED <<pools, pool_lock, readers, state_change_cache, cache_lock, pm_pc, pm_err,
                   last_synced_block, chain_head, todo, cur, logs_by_address, rx_open,
                   canon, tip, heads, in_reorg, fetched, sent>>
    /\ UNCHANGED_calls

\* The holder of the Receiver drops it.
DropRx ==
    /\ has_tx
    /\ rx_open
    /\ rx_open' = FALSE
    /\ chan' = <<>>
    /\ UNCHANGED <<pools, pool_lock, readers, state_change_cache, cache_lock, pm_pc, pm_err,
                   last_synced_block, chain_head, todo, cur, logs_by_address, canon, tip,
                   heads, in_reorg, fetched, sent>>
    /\ UNCHANGED_calls

NextPM ==
    \/ \E h \in 0..MaxBlock : RecvBlock(h)
    \/ RecvNoNumber
    \/ StreamEnd
    \/ \E a \in PoolAddrs : UnwindLock(a)
    \/ Unwind
    \/ GetLogs
    \/ GetLogsErr
    \/ \E a \in PoolAddrs \cup {ExtAddr} : ApplySkip(a)
    \/ \E a \in PoolAddrs : ApplyLock(a)
    \/ Apply
    \/ Send
    \/ EndBlock
    \/ \E a \in PoolAddrs : ReadLock(a)
    \/ \E a \in PoolAddrs : ReadUnlock(a)
    \/ Recv
    \/ DropRx

SpecStart == InitStart /\ [][NextStart]_vars

SpecPM == InitPM /\ [][NextPM]_vars

(***************************************************************************)
(* subscribe_state_changes with a consumer that reads each updated pool     *)
(***************************************************************************)
\* subscribe_state_changes has returned (receiver, handle): the task is spawned with
\* a sender and the consumer is about to receive.
InitSub ==
    /\ ToBUnused
    /\ FSUnused
    /\ LiveUnused
    /\ SWUnused
    /\ CMUnused
    /\ WRRUnused
    /\ \E l \in InitialSynced : PMNew(l)
    /\ sync_started = TRUE
    /\ spawned = 1
    /\ call_pc = [c \in Callers |-> "idle"]
    /\ call_kind = [c \in Callers |-> "subscribe"]
    /\ has_tx = TRUE
    /\ call_result = [c \in Callers |-> IF c = "c1" THEN <<"Ok">> ELSE <<>>]
    /\ pm_pc = "next_block"
    /\ cons_pc = "recv"
    /\ cons_upd = None

ConsFrame ==
    UNCHANGED <<sync_started, spawned, call_pc, call_kind, call_result, has_tx,
                wrrvars, tobvars, cmvars, swvars, livevars, fsvars>>

\* receiver.recv().await returns Some((address, block)).
ConsRecv ==
    /\ cons_pc = "recv"
    /\ rx_open
    /\ chan # <<>>
    /\ cons_upd' = Some(Head(chan))
    /\ chan' = Tail(chan)
    /\ cons_pc' = "lock"
    /\ UNCHANGED <<pools, pool_lock, readers, state_change_cache, cache_lock, pm_pc, pm_err,
                   last_synced_block, chain_head, todo, cur, logs_by_address, rx_open,
                   canon, tip, heads, in_reorg, fetched, sent>>
    /\ ConsFrame

\* manager.pool(&address).await / blocking_pool(&address): the read guard is
\* granted once the sync task does not hold the pool's write guard.
ConsLock ==
    /\ cons_pc = "lock"
    /\ pool_lock[cons_upd[1][1]] = "free"
    /\ readers' = [readers EXCEPT ![cons_upd[1][1]] = @ + 1]
    /\ cons_pc' = "read"
    /\ UNCHANGED <<pools, pool_lock, state_change_cache, cache_lock, pm_pc, pm_err,
                   last_synced_block, chain_head, todo, cur, logs_by_address, chan,
                   rx_open, canon, tip, heads, in_reorg, fetched, sent, cons_upd>>
    /\ ConsFrame

\* The consumer drops the read guard and goes back to the receiver.
ConsUnlock ==
    /\ cons_pc = "read"
    /\ readers' = [readers EXCEPT ![cons_upd[1][1]] = @ - 1]
    /\ cons_pc' = "recv"
    /\ UNCHANGED <<pools, pool_lock, state_change_cache, cache_lock, pm_pc, pm_err,
                   last_synced_block, chain_head, todo, cur, logs_by_address, chan,
                   rx_open, canon, tip, heads, in_reorg, fetched, sent, cons_upd>>
    /\ ConsFrame

NextSub ==
    \/ \E h \in 0..MaxBlock : RecvBlock(h)
    \/ RecvNoNumber
    \/ StreamEnd
    \/ \E a \in PoolAddrs : UnwindLock(a)
    \/ Unwind
    \/ GetLogs
    \/ GetLogsErr
    \/ \E a \in PoolAddrs \cup {ExtAddr} : ApplySkip(a)
    \/ \E a \in PoolAddrs : ApplyLock(a)
    \/ Apply
    \/ Send
    \/ EndBlock
    \/ ConsRecv
    \/ ConsLock
    \/ ConsUnlock

SpecSub == InitSub /\ [][NextSub]_vars

\* C35: the sync task and the consumer never wait on each other: the task is never
\* waiting for room in the full update channel, holding the write lock of a pool,
\* while the consumer, between two receives, waits for the read lock of that pool.
C35_NoMutualWait ==
    ~ ( /\ pm_pc = "send"
        /\ rx_open
        /\ Len(chan) >= StateChangeBuffer
        /\ cons_pc = "lock"
        /\ pool_lock[cons_upd[1][1]] = "sync" )

\* The task waits in send for the consumer to receive, the consumer waits for the
\* pool lock the task holds, and no step of either is enabled.
SyncAndConsumerStuck ==
    /\ pm_pc = "send"
    /\ cons_pc = "lock"
    /\ cur = cons_upd[1][1]
    /\ ~ ENABLED Send
    /\ ~ ENABLED ConsLock
    /\ ~ ENABLED ConsRecv
    /\ ~ ENABLED NextSub

C2_ReorgBeyondCacheIsFatal ==
    [][ /\ ( /\ pm_pc \in {"unwind_lock", "unwind"}
             /\ \E a \in todo :
                   \/ a \notin DOMAIN state_change_cache
                   \/ \A i \in DOMAIN state_change_cache[a] :
                         state_change_cache[a][i].block_number >= chain_head )
           => ( /\ pm_pc' \in {"unwind_lock", "unwind", "failed"}
                /\ pm_pc' = "failed" => pm_err' = "NoStateChangesInCache"
                /\ fetched' = fetched )
        /\ ( /\ pm_pc = "unwind"
             /\ pm_pc' # "unwind"
             /\ \/ cur \notin DOMAIN state_change_cache
                \/ \A i \in DOMAIN state_change_cache[cur] :
                      state_change_cache[cur][i].block_number >= chain_head )
           => ( pm_pc' = "failed" /\ pm_err' = "NoStateChangesInCache" )
        /\ pm_pc = "failed"
           => UNCHANGED <<pm_pc, pm_err, pools, state_change_cache, fetched,
                          last_synced_block, logs_by_address>> ]_vars

\* C2 witness: the task has ended with NoStateChangesInCache on a pool whose whole
\* history was tagged at or above the new head.
C2_Witness ==
     ( /\ pm_pc = "failed"
       /\ pm_err = "NoStateChangesInCache"
       /\ cur \in DOMAIN state_change_cache
       /\ state_change_cache[cur] = <<>> )

\* C8: from the start of a pool's unwind until its logs for the new head are applied
\* the sync task holds that pool's write lock, so no reader holds a guard on it.
C8_WriteLockHeldThroughReorg ==
    \A a \in in_reorg : pool_lock[a] = "sync" /\ readers[a] = 0

\* C9: whenever the sync task is suspended at an await other than the acquisition of
\* the history-cache lock, it holds no pool write lock.
C9_NoAwaitUnderPoolLock ==
    pm_pc \in {"next_block", "get_logs", "unwind_lock", "apply_lock", "send"}
        => \A a \in PoolAddrs : pool_lock[a] # "sync"

\* C32: while the sync task waits on the provider, for the next head of the block
\* subscription or for the answer of get_logs, it holds no pool lock (it takes no
\* read locks, and no write lock is held at those points).
C32_NoProviderWaitUnderPoolLock ==
    pm_pc \in {"next_block", "get_logs"} =>
        \A a \in PoolAddrs : pool_lock[a] # "sync"

\* C32 witness: every pool has been locked and unwound in a reorg, and the task now
\* waits for get_logs.
C32_Witness ==
     ( /\ pm_pc = "get_logs"
       /\ in_reorg = PoolAddrs
       /\ \A a \in PoolAddrs : pool_lock[a] = "free" )

\* C34: when applying a pool's logs for a head fails part-way, the pool is left in
\* the state it had before the batch and no history entry is pushed for that head.
C34_FailedBatchLeavesPoolUntouched ==
    [][ (pm_pc = "apply" /\ pm_pc' = "failed")
           => /\ pools'[cur] = pools[cur]
              /\ state_change_cache' = state_change_cache ]_vars

\* A batch has failed on its second log and the pool holds the batch's first log,
\* with no history entry for that head.
FailedBatchPartlyApplied ==
    /\ pm_pc = "failed"
    /\ pm_err = "InvalidEventSignature"
    /\ cur \in PoolAddrs
    /\ pools[cur].state # <<>>
    /\ pools[cur].state[Len(pools[cur].state)].block = chain_head
    /\ cur \in DOMAIN state_change_cache =>
          \A i \in DOMAIN state_change_cache[cur] :
             state_change_cache[cur][i].block_number # chain_head

\* The state of pool a after the logs of the canonical blocks 1..h, each applied once
\* and in order.
RECURSIVE CanonicalState(_, _, _)
CanonicalState(chain, a, h) ==
    IF h < 1 THEN <<>>
    ELSE LET mine == SelectSeq(chain[h], LAMBDA l : l.address = a)
         IN CanonicalState(chain, a, h - 1) \o
               [i \in 1..Len(mine) |-> [block |-> h, kind |-> mine[i].kind]]

\* C33: when a reorg to head h has been handled, every pool that was unwound equals
\* the logs of the canonical blocks up to h applied once each and in order: a pool
\* with re-fetched logs for h right after they are applied (so they went on top of
\* its state as of h - 1), a pool without such logs when the head is finished.
C33_ReorgYieldsCanonicalState ==
    [][ /\ (pm_pc = "apply" /\ pm_pc' # "failed" /\ cur \in in_reorg)
           => pools'[cur].state = CanonicalState(canon, cur, chain_head)
        /\ (pm_pc = "apply_lock" /\ pm_pc' = "next_block")
           => \A a \in in_reorg :
                 pools[a].state = CanonicalState(canon, a, chain_head) ]_vars

\* A reorg to head h has been handled and a pool holds more logs of block h than
\* the canonical block h carries for it.
ReorgKeepsOldLogsOfHead ==
    /\ pm_pc = "next_block"
    /\ heads = MaxHeads
    /\ last_synced_block = chain_head
    /\ \E a \in PoolAddrs :
          /\ a \in DOMAIN state_change_cache
          /\ Len(state_change_cache[a]) >= 2
          /\ Len(SelectSeq(pools[a].state, LAMBDA e : e.block = chain_head))
                > Len(SelectSeq(canon[chain_head], LAMBDA l : l.address = a))

\* C39: for a processed head the updates accepted by the channel are one
\* (pool, head) pair for each managed pool with a log in the fetched range and none
\* for another pool (all of them when the receiver is still there); an update is
\* sent only when the pool holds the batch's logs and the history has the snapshot of
\* that state for the head; the send is the only source of updates, and it lets the
\* task go on with the next address whether or not the receiver is gone.
C39_OneUpdatePerPoolWithLogs ==
    [][ /\ (pm_pc = "send" /\ pm_pc' # "send")
           => /\ pm_pc' = "apply_lock"
              /\ pm_err' = ""
              /\ state_change_cache[cur][1] = StateChange(Some(pools[cur]), chain_head)
              /\ LET n == Len(logs_by_address[cur])
                     m == Len(pools[cur].state)
                 IN /\ n >= 1
                    /\ m >= n
                    /\ \A i \in 1..n :
                          pools[cur].state[m - n + i] =
                             [block |-> logs_by_address[cur][i].block,
                              kind |-> logs_by_address[cur][i].kind]
              /\ rx_open => chan' = Append(chan, <<cur, chain_head>>)
        /\ Len(chan') > Len(chan) => pm_pc = "send"
        /\ (pm_pc = "apply_lock" /\ pm_pc' = "next_block")
           => LET with_logs == {a \in PoolAddrs :
                                  \E b \in fetched[1]..fetched[2] :
                                     \E i \in DOMAIN canon[b] : canon[b][i].address = a}
              IN /\ \A i \in DOMAIN sent :
                       sent[i][2] = chain_head /\ sent[i][1] \in with_logs
                 /\ \A i, j \in DOMAIN sent : sent[i] = sent[j] => i = j
                 /\ (has_tx /\ rx_open) =>
                       {sent[i][1] : i \in DOMAIN sent} = with_logs ]_vars

\* C39 witness: a head with logs of both pools has been processed and the channel
\* accepted an update for each, after an earlier head.
C39_Witness ==
     ( /\ pm_pc = "next_block"
       /\ heads >= 2
       /\ rx_open
       /\ Len(sent) = 2
       /\ sent[1][1] # sent[2][1] )

\* C39 witness: the receiver is gone, and the task has finished a head whose logs
\* it applied without an update being accepted.
C39_WitnessReceiverGone ==
     ( /\ pm_pc = "next_block"
       /\ has_tx
       /\ ~rx_open
       /\ sent = <<>>
       /\ last_synced_block = chain_head
       /\ \E a \in PoolAddrs :
             /\ pools[a].state # <<>>
             /\ pools[a].state[Len(pools[a].state)].block = chain_head )

C11_HistoryEntryPerBlock ==
    (pm_pc = "next_block" /\ heads > 0) =>
       \A a \in PoolAddrs :
          /\ a \in DOMAIN state_change_cache
          /\ \E i \in DOMAIN state_change_cache[a] :
                /\ state_change_cache[a][i].block_number = chain_head
                /\ state_change_cache[a][i].state_change = Some(pools[a])

\* C7: the start flag admits one call: at most one sync task is ever spawned, the
\* call that set the flag is the only one that returns Ok, and every other finished
\* call returned SyncAlreadyStarted.
C7_SingleSyncTask ==
    LET winners == {c \in Callers : call_pc[c] = "handle"}
        oks == {<<c, i>> \in Callers \X (1..MaxCalls) :
                   i <= Len(call_result[c]) /\ call_result[c][i] = "Ok"}
    IN /\ spawned + Cardinality(winners) = (IF sync_started THEN 1 ELSE 0)
       /\ Cardinality(oks) = spawned
       /\ \A c \in Callers : \A i \in DOMAIN call_result[c] :
             call_result[c][i] \in {"Ok", "SyncAlreadyStarted"}
       /\ (spawned = 0) = (pm_pc = "not_spawned")

\* C7 witness: one call spawned the task, a call of another caller and a later call
\* of the winner were both rejected.
C7_Witness ==
     ( /\ spawned = 1
       /\ \E c, d \in Callers :
             /\ c # d
             /\ call_result[c] = <<"Ok", "SyncAlreadyStarted">>
             /\ "SyncAlreadyStarted" \in {call_result[d][i] : i \in DOMAIN call_result[d]} )

(***************************************************************************)
(* Pool manager: the history of one pool over a long run of blocks         *)
(* add_state_change_to_cache and unwind_state_changes applied to pool p1   *)
(* for more blocks than the history holds.                                 *)
(***************************************************************************)
InitCache ==
    /\ ToBUnused
    /\ FSUnused
    /\ LiveUnused
    /\ ConUnused
    /\ SWUnused
    /\ CMUnused
    /\ WRRUnused
    /\ PMNew(0)
    /\ sync_started = TRUE
    /\ spawned = 1
    /\ call_pc = [c \in Callers |-> "idle"]
    /\ call_kind = [c \in Callers |-> "watch"]
    /\ call_result = [c \in Callers |-> IF c = "c1" THEN <<"Ok">> ELSE <<>>]
    /\ has_tx = FALSE
    /\ pm_pc = "next_block"

\* The snapshot of p1 tagged with the next block is pushed onto its history.
CachePush ==
    /\ pm_pc = "next_block"
    /\ chain_head < HistoryCapacity + MaxExtra
    /\ LET h == chain_head + 1
           r == add_state_change_to_cache(state_change_cache,
                                          StateChange(Some(pools["p1"]), h), "p1")
       IN  /\ pm_err' = r.err
           /\ state_change_cache' = r.scc
           /\ IF r.err = ""
              THEN /\ chain_head' = h
                   /\ last_synced_block' = h
                   /\ UNCHANGED pm_pc
              ELSE /\ pm_pc' = "failed"
                   /\ UNCHANGED <<chain_head, last_synced_block>>
    /\ UNCHANGED <<pools, pool_lock, readers, cache_lock, todo, cur, logs_by_address,
                   chan, rx_open, canon, tip, heads, in_reorg, fetched, sent>>
    /\ UNCHANGED_calls

\* A reorg to head h: the history of p1 is unwound to h and the snapshot of the
\* re-synced block h is pushed.
CacheReorg(h) ==
    /\ pm_pc = "next_block"
    /\ h >= 1
    /\ h <= chain_head
    /\ h >= chain_head - MaxReorgDepth
    /\ LET u == unwind_state_changes(pools["p1"], state_change_cache, h)
           r == add_state_change_to_cache(u.scc, StateChange(Some(u.pool), h), "p1")
       IN  IF u.err # ""
           THEN /\ pm_err' = u.err
                /\ pm_pc' = "failed"
                /\ pools' = [pools EXCEPT !["p1"] = u.pool]
                /\ state_change_cache' = u.scc
                /\ UNCHANGED <<chain_head, last_synced_block>>
           ELSE /\ pm_err' = r.err
                /\ pm_pc' = IF r.err = "" THEN "next_block" ELSE "failed"
                /\ pools' = [pools EXCEPT !["p1"] = u.pool]
                /\ state_change_cache' = r.scc
                /\ chain_head' = h
                /\ last_synced_block' = h
    /\ UNCHANGED <<pool_lock, readers, cache_lock, todo, cur, logs_by_address, chan,
                   rx_open, canon, tip, heads, in_reorg, fetched, sent>>
    /\ UNCHANGED_calls

NextCache ==
    \/ CachePush
    \/ \E h \in 1..(HistoryCapacity + MaxExtra) : CacheReorg(h)

SpecCache == InitCache /\ [][NextCache]_vars

\* C12: a pool's history never holds more than 150 entries and CapacityError is
\* never returned; a push onto a full history drops the entry at the back, which
\* is the one with the lowest block number, and keeps the other 149 behind the
\* new entry.
C12_HistoryCapped ==
    [][ /\ pm_err' # "CapacityError"
        /\ \A a \in DOMAIN state_change_cache' :
              LET old == IF a \in DOMAIN state_change_cache
                         THEN state_change_cache[a] ELSE <<>>
                  new == state_change_cache'[a]
              IN  /\ Len(new) <= HistoryCapacity
                  /\ (Len(old) = HistoryCapacity /\ Len(new) = HistoryCapacity
                         /\ new # old)
                     => /\ new = <<new[1]>> \o SubSeq(old, 1, HistoryCapacity - 1)
                        /\ \A i \in DOMAIN old :
                              old[HistoryCapacity].block_number <= old[i].block_number
      ]_vars

\* C12 witness: a full history has had its oldest entry, tagged 1, evicted.
C12_Witness ==
    /\ pm_pc = "next_block"
    /\ "p1" \in DOMAIN state_change_cache
    /\ Len(state_change_cache["p1"]) = HistoryCapacity
    /\ state_change_cache["p1"][HistoryCapacity].block_number > 1
    /\ state_change_cache["p1"][1].block_number = chain_head

(***************************************************************************)
(* Weighted round-robin leader selection                                   *)
(* Priorities are f64 in the source; here a priority is the exact fraction *)
(* priority / pden, all validators of one selector sharing pden.           *)
(***************************************************************************)
Peers == {"Alice", "Bob", "Charlie"}

Powers == 1..MaxPower

DefaultPenalty == <<9, 8>>

\* AngstromValidator::new(name, voting_power): priority 0.0
AngstromValidator(voting_power) == [voting_power |-> voting_power, priority |-> 0]

\* self.validators.iter().map(|v| v.voting_power).sum()
TotalVotingPower(V) == SumOver([p \in DOMAIN V |-> V[p].voting_power], DOMAIN V)

PrioritySum(V) == SumOver([p \in DOMAIN V |-> V[p].priority], DOMAIN V)

MaxPriority(V) == CHOOSE m \in {V[p].priority : p \in DOMAIN V} :
                      \A p \in DOMAIN V : V[p].priority <= m

MinPriority(V) == CHOOSE m \in {V[p].priority : p \in DOMAIN V} :
                      \A p \in DOMAIN V : V[p].priority >= m

RECURSIVE GcdOver(_, _, _)
GcdOver(V, S, g) ==
    IF S = {} THEN g
    ELSE LET p == CHOOSE q \in S : TRUE
         IN GcdOver(V, S \ {p}, Gcd(g, Abs(V[p].priority)))

\* The fractions numerator/den in lowest common terms.
Normalize(V, den) ==
    LET g == GcdOver(V, DOMAIN V, den)
    IN [validators |-> [p \in DOMAIN V |-> [V[p] EXCEPT !.priority = @ \div g]],
        den |-> den \div g]

\* Variant: the priorities are left where they are.
center_priorities_skip(V, den) == [validators |-> V, den |-> den]

\* center_priorities: subtract the average priority from every priority.
center_priorities(V, den) ==
    IF DOMAIN V = {} THEN [validators |-> V, den |-> den]
    ELSE LET len == Cardinality(DOMAIN V)
             sum == PrioritySum(V)
         IN Normalize([p \in DOMAIN V |->
                          [V[p] EXCEPT !.priority = len * @ - sum]], len * den)

\* scale_priorities: if max - min exceeds 2 * total voting power, divide every
\* priority by (max - min) / (2 * total voting power).
scale_priorities(V, den) ==
    IF DOMAIN V = {} THEN [validators |-> V, den |-> den]
    ELSE LET diff == MaxPriority(V) - MinPriority(V)
             total_voting_power == TotalVotingPower(V)
         IN IF diff > 2 * total_voting_power * den
            THEN Normalize([p \in DOMAIN V |->
                               [V[p] EXCEPT !.priority = @ * 2 * total_voting_power]],
                           diff)
            ELSE [validators |-> V, den |-> den]

\* Variant: the winner's priority is not reduced.
proposer_selection_no_sub(V, den) ==
    LET added == [p \in DOMAIN V |->
                     [V[p] EXCEPT !.priority = @ + V[p].voting_power * den]]
    IN { [validators |-> added, den |-> den, proposer |-> w] :
            w \in {p \in DOMAIN V : added[p].priority = MaxPriority(added)} }

\* Variant: the winner's priority is reduced by its own voting power.
proposer_selection_sub_own(V, den) ==
    LET added == [p \in DOMAIN V |->
                     [V[p] EXCEPT !.priority = @ + V[p].voting_power * den]]
    IN { [validators |-> [added EXCEPT ![w].priority = @ - V[w].voting_power * den],
          den |-> den, proposer |-> w] :
            w \in {p \in DOMAIN V : added[p].priority = MaxPriority(added)} }

\* proposer_selection: add each voting power to its priority, take a validator of
\* maximal priority (max_by over the HashSet's iteration order: any of the tied
\* ones), subtract the total voting power from it.
proposer_selection(V, den) ==
    LET total_voting_power == TotalVotingPower(V)
        added == [p \in DOMAIN V |->
                     [V[p] EXCEPT !.priority = @ + V[p].voting_power * den]]
    IN { [validators |-> [added EXCEPT ![w].priority = @ - total_voting_power * den],
          den |-> den, proposer |-> w] :
            w \in {p \in DOMAIN V : added[p].priority = MaxPriority(added)} }

\* One iteration of the loop in choose_proposer.
RoundOutcomes(V, den) ==
    LET c == center_priorities(V, den)
        sc == scale_priorities(c.validators, c.den)
    IN { LET n == Normalize(o.validators, o.den)
         IN [validators |-> n.validators, den |-> n.den, proposer |-> o.proposer] :
            o \in proposer_selection(sc.validators, sc.den) }

\* choose_proposer run to its end: n rounds from (V, den), leader as Option.
RECURSIVE ChooseOutcomes(_, _, _, _)
ChooseOutcomes(V, den, ldr, n) ==
    IF n = 0 THEN {[validators |-> V, den |-> den, leader |-> ldr]}
    ELSE UNION { ChooseOutcomes(o.validators, o.den, Some(o.proposer), n - 1) :
                    o \in RoundOutcomes(V, den) }

\* Variant of add_validator below: the newcomer starts at priority 0.
add_validator_plain(V, den, pen, peer_id, voting_power) ==
    IF peer_id \in DOMAIN V
    THEN [validators |-> V, den |-> den]
    ELSE Normalize([p \in DOMAIN V \cup {peer_id} |->
                       IF p = peer_id THEN AngstromValidator(voting_power) ELSE V[p]], den)

\* add_validator: the newcomer starts at -(penalty factor * total voting power).
add_validator(V, den, pen, peer_id, voting_power) ==
    LET total_voting_power == TotalVotingPower(V)
        \* rescale every priority to the denominator den * pen[2]
        widened == [p \in DOMAIN V |-> [V[p] EXCEPT !.priority = @ * pen[2]]]
        new_validator == [voting_power |-> voting_power,
                          priority |-> 0 - pen[1] * total_voting_power * den]
    IN IF peer_id \in DOMAIN V
       THEN [validators |-> V, den |-> den]      \* HashSet::insert keeps the old element
       ELSE Normalize([p \in DOMAIN V \cup {peer_id} |->
                          IF p = peer_id THEN new_validator ELSE widened[p]],
                      den * pen[2])

\* Variant of remove_validator below that leaves the set as it is.
remove_validator_keep(V, den, peer_id) == Normalize(V, den)

\* remove_validator: HashSet::remove by peer id.
remove_validator(V, den, peer_id) ==
    Normalize([p \in DOMAIN V \ {peer_id} |-> V[p]], den)

(***************************************************************************)
(* Leader selection: one selector driven by its callers                    *)
(***************************************************************************)
\* The penalty factors a selector is constructed with (None: the default 1.125).
Penalties == {DefaultPenalty}

\* WeightedRoundRobin::new(validators, block_number, new_joiner_penalty_factor)
\* with no state file present.
InitWRR ==
    /\ ToBUnused
    /\ FSUnused
    /\ LiveUnused
    /\ ConUnused
    /\ SWUnused
    /\ CMUnused
    /\ PMUnused
    /\ \E S \in SUBSET Peers : \E f \in [S -> Powers] :
          validators = [p \in S |-> AngstromValidator(f[p])]
    /\ pden = 1
    /\ wrr_block_number = 1
    /\ penalty \in Penalties
    /\ wrr_pc = "idle"
    /\ wrr_target = 0
    /\ rounds_to_catchup = 0
    /\ round_i = 0
    /\ leader = None
    /\ ret = None
    /\ wrr_ops = 0
    /\ validators2 = << >>
    /\ pden2 = 1
    /\ wrr_block_number2 = 0
    /\ ret2 = None
    /\ stats = << >>

\* choose_proposer(block_number) up to the loop: rounds_to_catchup is a u64
\* difference, which panics (overflow checks on) or wraps (overflow checks off) when
\* the target is below the stored block number.
ChooseStart(target) ==
    /\ wrr_pc = "idle"
    /\ wrr_target' = target
    /\ leader' = None
    /\ round_i' = 0
    /\ IF target >= wrr_block_number
       THEN /\ rounds_to_catchup' = target - wrr_block_number
            /\ wrr_pc' = "rounds"
       ELSE /\ rounds_to_catchup' = 0
            /\ wrr_pc' \in {"panicked", "wrapped"}
    /\ UNCHANGED <<validators, pden, wrr_block_number, penalty, ret, wrr_ops, validators2,
                   pden2, wrr_block_number2, ret2, stats>>
    /\ UNCHANGED <<pmvars, tobvars, cmvars, swvars, convars, livevars, fsvars>>

\* One iteration of for _ in 0..rounds_to_catchup; with no validator the unwrap of
\* max_by's result panics. A wrapped count (2^64 - k) is never exhausted.
ChooseRound ==
    /\ \/ wrr_pc = "rounds" /\ round_i < rounds_to_catchup
       \/ wrr_pc = "wrapped"
    /\ IF DOMAIN validators = {}
       THEN /\ wrr_pc' = "panicked"
            /\ UNCHANGED <<validators, pden, leader, round_i>>
       ELSE /\ \E o \in RoundOutcomes(validators, pden) :
                  /\ validators' = o.validators
                  /\ pden' = o.den
                  /\ leader' = Some(o.proposer)
            /\ round_i' = IF wrr_pc = "rounds" THEN round_i + 1 ELSE round_i
            /\ UNCHANGED wrr_pc
    /\ UNCHANGED <<wrr_block_number, penalty, wrr_target, rounds_to_catchup, ret, wrr_ops,
                   validators2, pden2, wrr_block_number2, ret2, stats>>
    /\ UNCHANGED <<pmvars, tobvars, cmvars, swvars, convars, livevars, fsvars>>

\* The loop is over: self.block_number = block_number; leader is returned.
ChooseEnd ==
    /\ wrr_pc = "rounds"
    /\ round_i = rounds_to_catchup
    /\ wrr_block_number' = wrr_target
    /\ ret' = leader
    /\ wrr_pc' = "idle"
    /\ UNCHANGED <<validators, pden, penalty, wrr_target, rounds_to_catchup, round_i,
                   leader, wrr_ops, validators2, pden2, wrr_block_number2, ret2, stats>>
    /\ UNCHANGED <<pmvars, tobvars, cmvars, swvars, convars, livevars, fsvars>>

AddValidator(peer_id, voting_power) ==
    /\ wrr_pc = "idle"
    /\ wrr_ops < MaxOps
    /\ wrr_ops' = wrr_ops + 1
    /\ LET r == add_validator(validators, pden, penalty, peer_id, voting_power)
       IN /\ validators' = r.validators
          /\ pden' = r.den
    /\ UNCHANGED <<wrr_block_number, penalty, wrr_pc, wrr_target, rounds_to_catchup,
                   round_i, leader, ret, validators2, pden2, wrr_block_number2, ret2,
                   stats>>
    /\ UNCHANGED <<pmvars, tobvars, cmvars, swvars, convars, livevars, fsvars>>

RemoveValidator(peer_id) ==
    /\ wrr_pc = "idle"
    /\ wrr_ops < MaxOps
    /\ wrr_ops' = wrr_ops + 1
    /\ LET r == remove_validator(validators, pden, peer_id)
       IN /\ validators' = r.validators
          /\ pden' = r.den
    /\ UNCHANGED <<wrr_block_number, penalty, wrr_pc, wrr_target, rounds_to_catchup,
                   round_i, leader, ret, validators2, pden2, wrr_block_number2, ret2,
                   stats>>
    /\ UNCHANGED <<pmvars, tobvars, cmvars, swvars, convars, livevars, fsvars>>

NextWRR ==
    \/ \E target \in 0..MaxTarget : ChooseStart(target)
    \/ ChooseRound
    \/ ChooseEnd
    \/ \E p \in Peers, vp \in Powers : AddValidator(p, vp)
    \/ \E p \in Peers : RemoveValidator(p)

SpecWRR == InitWRR /\ [][NextWRR]_vars

(***************************************************************************)
(* Properties of leader selection                                          *)
(***************************************************************************)
\* C5: choose_proposer(target) runs exactly target - block_number rounds and returns
\* the proposer of the last one; a round subtracts the mean from every priority,
\* rescales by 2 * total / (max - min) if max - min exceeds 2 * total voting power,
\* adds each voting power, picks a validator of maximal priority and subtracts the
\* total voting power from that validator only.
C5_ChooseProposerRounds ==
    [][ /\ (wrr_pc = "rounds" /\ wrr_pc' = "rounds" /\ round_i' # round_i)
           => LET V == validators
                  S == DOMAIN V
                  n == Cardinality(S)
                  sum == SumOver([p \in S |-> V[p].priority], S)
                  total == SumOver([p \in S |-> V[p].voting_power], S)
                  c == [p \in S |-> n * V[p].priority - sum]
                  maxc == CHOOSE m \in {c[p] : p \in S} : \A p \in S : c[p] <= m
                  minc == CHOOSE m \in {c[p] : p \in S} : \A p \in S : c[p] >= m
                  rescale == (maxc - minc) > 2 * total * n * pden
                  sn == [p \in S |-> IF rescale THEN c[p] * 2 * total ELSE c[p]]
                  sd == IF rescale THEN maxc - minc ELSE n * pden
              IN /\ round_i' = round_i + 1
                 /\ DOMAIN validators' = S
                 /\ \E w \in S :
                       /\ leader' = Some(w)
                       /\ \A p \in S :
                             /\ validators'[p].voting_power = V[p].voting_power
                             /\ validators'[p].priority * sd =
                                   pden' * (sn[p] + sd * (V[p].voting_power
                                                - (IF p = w THEN total ELSE 0)))
                             /\ sn[p] + sd * V[p].voting_power
                                   <= sn[w] + sd * V[w].voting_power
        /\ (wrr_pc = "rounds" /\ wrr_pc' = "idle")
           => /\ round_i = wrr_target - wrr_block_number
              /\ ret' = leader
              /\ wrr_block_number' = wrr_target
              /\ UNCHANGED <<validators, pden>>
        /\ (wrr_pc = "idle" /\ wrr_pc' = "rounds")
           => /\ round_i' = 0
              /\ leader' = None
              /\ UNCHANGED <<validators, pden>> ]_vars

\* C5 witness: a call that ran two rounds over three validators with fractional
\* priorities has returned a proposer.
C5_Witness ==
    /\ wrr_pc = "idle"
    /\ ret # None
    /\ round_i = 2
    /\ wrr_block_number = wrr_target
    /\ Cardinality(DOMAIN validators) = 3
    /\ pden > 1

\* C27: the selector's block_number never decreases across choose_proposer calls;
\* a call whose target is below the stored block_number runs no round and changes
\* no priority.
C27_BlockNumberMonotone ==
    /\ [][wrr_block_number' >= wrr_block_number]_vars
    /\ [][ (wrr_pc # "idle" /\ wrr_target < wrr_block_number) =>
              UNCHANGED <<validators, pden, leader, wrr_block_number>> ]_vars

\* A call with a lower target is running rounds: a round of the wrapped count has
\* chosen a proposer and changed priorities.
LowerTargetRunsRounds ==
    /\ wrr_pc = "wrapped"
    /\ wrr_target < wrr_block_number
    /\ leader # None
    /\ \E p \in DOMAIN validators : validators[p].priority # 0

\* C37: a choose_proposer call on a non-empty validator set with a target block not
\* below the stored block number, a target equal to it included, returns a
\* proposer.
C37_ChooseReturnsProposer ==
    [][ (wrr_pc = "rounds" /\ wrr_pc' = "idle" /\ DOMAIN validators # {}) =>
           ret' # None ]_vars

\* A call whose target is the stored block number has returned no proposer,
\* although there are validators.
ChooseAtSameBlockReturnsNone ==
    /\ wrr_pc = "idle"
    /\ wrr_target = wrr_block_number
    /\ rounds_to_catchup = 0
    /\ ret = None
    /\ leader = None
    /\ DOMAIN validators # {}
    /\ wrr_target > 0

(***************************************************************************)
(* Leader selection: two selectors given the same calls                    *)
(***************************************************************************)
\* Two selectors constructed from the same validators, block number and factor.
InitDet ==
    /\ ToBUnused
    /\ FSUnused
    /\ LiveUnused
    /\ ConUnused
    /\ SWUnused
    /\ CMUnused
    /\ PMUnused
    /\ \E S \in SUBSET Peers : \E f \in [S -> Powers] :
          /\ S # {}
          /\ validators = [p \in S |-> AngstromValidator(f[p])]
    /\ validators2 = validators
    /\ pden = 1
    /\ pden2 = 1
    /\ wrr_block_number = 0
    /\ wrr_block_number2 = 0
    /\ penalty = DefaultPenalty
    /\ wrr_pc = "idle"
    /\ wrr_target = 0
    /\ rounds_to_catchup = 0
    /\ round_i = 0
    /\ leader = None
    /\ ret = None
    /\ ret2 = None
    /\ wrr_ops = 0
    /\ stats = << >>

\* choose_proposer(target) on both selectors; each selector iterates its own HashSet.
ChooseBoth(target) ==
    /\ wrr_pc = "idle"
    /\ DOMAIN validators # {}
    /\ DOMAIN validators2 # {}
    /\ target >= wrr_block_number
    /\ target >= wrr_block_number2
    /\ wrr_target' = target
    /\ \E o \in ChooseOutcomes(validators, pden, None, target - wrr_block_number) :
          /\ validators' = o.validators
          /\ pden' = o.den
          /\ ret' = o.leader
    /\ \E o \in ChooseOutcomes(validators2, pden2, None, target - wrr_block_number2) :
          /\ validators2' = o.validators
          /\ pden2' = o.den
          /\ ret2' = o.leader
    /\ wrr_block_number' = target
    /\ wrr_block_number2' = target
    /\ UNCHANGED <<penalty, wrr_pc, rounds_to_catchup, round_i, leader, wrr_ops, stats>>
    /\ UNCHANGED <<pmvars, tobvars, cmvars, swvars, convars, livevars, fsvars>>

\* add_validator(peer_id, voting_power) on both selectors.
AddBoth(peer_id, voting_power) ==
    /\ wrr_pc = "idle"
    /\ wrr_ops < MaxOps
    /\ wrr_ops' = wrr_ops + 1
    /\ LET r == add_validator(validators, pden, penalty, peer_id, voting_power)
           r2 == add_validator(validators2, pden2, penalty, peer_id, voting_power)
       IN /\ validators' = r.validators
          /\ pden' = r.den
          /\ validators2' = r2.validators
          /\ pden2' = r2.den
    /\ UNCHANGED <<wrr_block_number, wrr_block_number2, penalty, wrr_pc, wrr_target,
                   rounds_to_catchup, round_i, leader, ret, ret2, stats>>
    /\ UNCHANGED <<pmvars, tobvars, cmvars, swvars, convars, livevars, fsvars>>

\* remove_validator(peer_id) on both selectors.
RemoveBoth(peer_id) ==
    /\ wrr_pc = "idle"
    /\ wrr_ops < MaxOps
    /\ wrr_ops' = wrr_ops + 1
    /\ LET r == remove_validator(validators, pden, peer_id)
           r2 == remove_validator(validators2, pden2, peer_id)
       IN /\ validators' = r.validators
          /\ pden' = r.den
          /\ validators2' = r2.validators
          /\ pden2' = r2.den
    /\ UNCHANGED <<wrr_block_number, wrr_block_number2, penalty, wrr_pc, wrr_target,
                   rounds_to_catchup, round_i, leader, ret, ret2, stats>>
    /\ UNCHANGED <<pmvars, tobvars, cmvars, swvars, convars, livevars, fsvars>>

NextDet ==
    \/ \E target \in 0..MaxTarget : ChooseBoth(target)
    \/ \E p \in Peers, vp \in Powers : AddBoth(p, vp)
    \/ \E p \in Peers : RemoveBoth(p)

SpecDet == InitDet /\ [][NextDet]_vars

\* C4: two selectors in the same state (validators, priorities, factor, block number)
\* return the same proposer and reach the same state for the same target block.
C4_SelectionDeterministic ==
    [][ ( /\ validators = validators2
          /\ pden = pden2
          /\ wrr_block_number = wrr_block_number2 )
        => ( /\ validators' = validators2'
             /\ pden' = pden2'
             /\ wrr_block_number' = wrr_block_number2'
             /\ (wrr_block_number' # wrr_block_number => ret' = ret2') ) ]_vars

(***************************************************************************)
(* Leader selection: test_add_remove_validator                             *)
(* simulate_rounds calls choose_proposer for the next block and counts the *)
(* proposers of its window in a fresh stats map; validators are added and  *)
(* removed between the windows. validators2 and pden2 keep the set as it   *)
(* was before the last removal.                                            *)
(***************************************************************************)
\* test_add_remove_validator changes the set twice: one add_validator call and
\* one remove_validator call.
JoinOps == 2

\* Option::unwrap_or
unwrap_or(opt, default) == IF opt = None THEN default ELSE opt[1]

\* The argument new_joiner_penalty_factor of WeightedRoundRobin::new: None, or a
\* configured factor (2.0).
PenaltyFactors == {None, Some(<<2, 1>>)}

InitJoin ==
    /\ ToBUnused
    /\ FSUnused
    /\ LiveUnused
    /\ ConUnused
    /\ SWUnused
    /\ CMUnused
    /\ PMUnused
    /\ \E S \in SUBSET Peers : \E f \in [S -> Powers] :
          /\ S # {}
          /\ validators = [p \in S |-> AngstromValidator(f[p])]
    /\ pden = 1
    /\ wrr_block_number = 0
    /\ \E f \in PenaltyFactors : penalty = unwrap_or(f, DefaultPenalty)
    /\ wrr_pc = "idle"
    /\ wrr_target = 0
    /\ rounds_to_catchup = 0
    /\ round_i = 0
    /\ leader = None
    /\ ret = None
    /\ wrr_ops = 0
    /\ validators2 = << >>
    /\ pden2 = 1
    /\ wrr_block_number2 = 0
    /\ ret2 = None
    /\ stats = << >>

\* The rounds of the current window: every round counts one proposer.
WindowRounds == SumOver(stats, DOMAIN stats)

\* simulate_rounds, one iteration: algo.choose_proposer(i).unwrap() for the next
\* block i, counted in stats; with no validator the unwrap in proposer_selection
\* panics.
JoinRound ==
    /\ wrr_pc = "idle"
    /\ wrr_block_number < MaxJoinRounds
    /\ IF DOMAIN validators = {}
       THEN /\ wrr_pc' = "panicked"
            /\ UNCHANGED <<validators, pden, wrr_block_number, wrr_target, ret, stats>>
       ELSE /\ wrr_target' = wrr_block_number + 1
            /\ wrr_block_number' = wrr_target'
            /\ \E o \in ChooseOutcomes(validators, pden, None, 1) :
                  /\ validators' = o.validators
                  /\ pden' = o.den
                  /\ ret' = o.leader
                  /\ stats' = [p \in DOMAIN stats \cup {o.leader[1]} |->
                                  (IF p \in DOMAIN stats THEN stats[p] ELSE 0)
                                  + (IF p = o.leader[1] THEN 1 ELSE 0)]
            /\ UNCHANGED wrr_pc
    /\ UNCHANGED <<penalty, rounds_to_catchup, round_i, leader, wrr_ops, validators2,
                   pden2, wrr_block_number2, ret2>>
    /\ UNCHANGED <<pmvars, tobvars, cmvars, swvars, convars, livevars, fsvars>>

\* algo.add_validator(peer_id, voting_power); the next window starts.
JoinAdd(peer_id, voting_power) ==
    /\ wrr_pc = "idle"
    /\ wrr_ops < JoinOps
    /\ wrr_ops' = wrr_ops + 1
    /\ \E r \in {add_validator(validators, pden, penalty, peer_id, voting_power)} :
          /\ validators' = r.validators
          /\ pden' = r.den
    /\ stats' = << >>
    /\ UNCHANGED <<wrr_block_number, penalty, wrr_target, wrr_pc, rounds_to_catchup,
                   round_i, leader, ret, validators2, pden2, wrr_block_number2, ret2>>
    /\ UNCHANGED <<pmvars, tobvars, cmvars, swvars, convars, livevars, fsvars>>

\* algo.remove_validator(&peer_id); the next window starts.
JoinRemove(peer_id) ==
    /\ wrr_pc = "idle"
    /\ wrr_ops < JoinOps
    /\ wrr_ops' = wrr_ops + 1
    /\ \E r \in {remove_validator(validators, pden, peer_id)} :
          /\ validators' = r.validators
          /\ pden' = r.den
    /\ validators2' = validators
    /\ pden2' = pden
    /\ stats' = << >>
    /\ UNCHANGED <<wrr_block_number, penalty, wrr_target, wrr_pc, rounds_to_catchup,
                   round_i, leader, ret, wrr_block_number2, ret2>>
    /\ UNCHANGED <<pmvars, tobvars, cmvars, swvars, convars, livevars, fsvars>>

NextJoin ==
    \/ JoinRound
    \/ \E p \in Peers, vp \in Powers : JoinAdd(p, vp)
    \/ \E p \in Peers : JoinRemove(p)

SpecJoin == InitJoin /\ [][NextJoin]_vars

\* C28: every proposer choose_proposer returns is a validator of the set at the
\* time of the call; remove_validator(p) takes p out of the set, so p is no
\* proposer of a later window until it is added again; a validator (an added one
\* included) has been a proposer once the rounds of the window times its voting
\* power reach twice the total voting power; and a peer that is not in the set
\* (a removed one included) is added at the newcomer penalty priority.
C28_ProposersAreMembers ==
    /\ [][ wrr_block_number' # wrr_block_number =>
              /\ ret' \in {Some(p) : p \in DOMAIN validators}
              /\ DOMAIN validators' = DOMAIN validators ]_vars
    /\ [][ \A p \in Peers : JoinRemove(p) => p \notin DOMAIN validators' ]_vars
    /\ [](DOMAIN stats \subseteq DOMAIN validators)
    /\ [](\A q \in DOMAIN validators :
             WindowRounds * validators[q].voting_power
                >= 2 * TotalVotingPower(validators) => q \in DOMAIN stats)
    /\ [][ \A q \in Peers \ DOMAIN validators :
              q \in DOMAIN validators' =>
                 validators'[q].priority * penalty[2] =
                    0 - penalty[1] * TotalVotingPower(validators) * pden' ]_vars

\* A validator that had a priority of its own was removed and added again: it is
\* back at the penalty priority, which is not the priority it was removed with,
\* and the other validators are as they were before the removal.
C28_Witness ==
    /\ wrr_ops = 2
    /\ stats = << >>
    /\ DOMAIN validators2 = DOMAIN validators
    /\ \E p \in DOMAIN validators :
          /\ validators2[p].priority # 0
          /\ validators[p].priority * pden2 # validators2[p].priority * pden
          /\ validators[p].priority * penalty[2] =
                0 - penalty[1] * (TotalVotingPower(validators)
                                   - validators[p].voting_power) * pden
          /\ \A o \in DOMAIN validators \ {p} :
                validators[o].priority * pden2 = validators2[o].priority * pden

\* A newcomer is a proposer for the first time in the fourth round or later of
\* its window.
JoinedAndSelected ==
    /\ wrr_ops = 1
    /\ WindowRounds >= 4
    /\ \E q \in DOMAIN stats :
          /\ ret = Some(q)
          /\ stats[q] = 1
          /\ q \notin DOMAIN validators2
          /\ validators2 = << >>

\* C29: add_validator(peer, power) puts a peer that is not in the set into it with
\* the given voting power and the priority -(new_joiner_penalty_factor * total
\* voting power of the validators already in the set), the factor being 1.125
\* unless WeightedRoundRobin::new was given one, and every validator already in
\* the set keeps its voting power and its priority.
C29_NewcomerPenalty ==
    /\ [](penalty \in {<<9, 8>>} \cup {f[1] : f \in PenaltyFactors \ {None}})
    /\ [][ \A q \in Peers, vp \in Powers :
              JoinAdd(q, vp) =>
                 /\ \A p \in DOMAIN validators :
                       /\ p \in DOMAIN validators'
                       /\ validators'[p].voting_power = validators[p].voting_power
                       /\ validators'[p].priority * pden = validators[p].priority * pden'
                 /\ q \notin DOMAIN validators =>
                       /\ DOMAIN validators' = DOMAIN validators \cup {q}
                       /\ validators'[q].voting_power = vp
                       /\ validators'[q].priority * penalty[2] =
                             0 - penalty[1] * TotalVotingPower(validators) * pden' ]_vars

\* A third validator has joined two validators that have priorities of their own,
\* under the default factor: its priority is -9/8 of their total voting power.
C29_Witness ==
    /\ wrr_ops = 1
    /\ validators2 = << >>
    /\ stats = << >>
    /\ penalty = <<9, 8>>
    /\ Cardinality(DOMAIN validators) = 3
    /\ \E q \in DOMAIN validators :
          /\ validators[q].priority * 8 =
                0 - 9 * (TotalVotingPower(validators) - validators[q].voting_power) * pden
          /\ \A o \in DOMAIN validators \ {q} : validators[o].priority # 0

\* C30: a round of choose_proposer leaves the priorities with sum zero: centering
\* makes the sum zero, rescaling keeps it zero, and the selection adds the voting
\* powers, whose sum is the total voting power it subtracts from the winner.
C30_PrioritySumZero ==
    /\ [][ wrr_block_number' # wrr_block_number =>
              LET c == center_priorities(validators, pden)
                  sc == scale_priorities(c.validators, c.den)
              IN  /\ PrioritySum(c.validators) = 0
                  /\ PrioritySum(sc.validators) = 0
                  /\ \A o \in proposer_selection(sc.validators, sc.den) :
                        /\ o.den = sc.den
                        /\ PrioritySum(o.validators) = PrioritySum(sc.validators)
                  /\ PrioritySum(validators') = 0 ]_vars
    /\ [](stats # << >> => PrioritySum(validators) = 0)

\* The first round after a validator joined: the penalty had left the sum of the
\* priorities below zero, the round has brought it back to zero.
C30_Witness ==
    /\ wrr_ops >= 1
    /\ WindowRounds = 1
    /\ pden > 1
    /\ Cardinality(DOMAIN validators) >= 2
    /\ PrioritySum(validators) = 0
    /\ \E p \in DOMAIN validators : validators[p].priority # 0

(***************************************************************************)
(* Leader selection: the checkpoint in ./state.json                         *)
(***************************************************************************)
RECURSIVE IsPowerOfTwo(_)
IsPowerOfTwo(n) == n = 1 \/ (n > 1 /\ n % 2 = 0 /\ IsPowerOfTwo(n \div 2))

Lcm(a, b) == (a * b) \div Gcd(a, b)

RECURSIVE LcmOver(_)
LcmOver(S) ==
    IF S = {} THEN 1
    ELSE LET d == CHOOSE e \in S : TRUE IN Lcm(d, LcmOver(S \ {d}))

\* The orders in which the elements of a HashSet can be iterated.
IterationOrders(S) ==
    {s \in [1..Cardinality(S) -> S] : \A p \in S : \E i \in DOMAIN s : s[i] = p}

\* serde_json writes an f64 as the shortest decimal text that reads back as the
\* same f64. The text denotes one number: the fraction in lowest terms, whatever
\* denominator the selector keeps. digits17: a quotient that is no dyadic
\* fraction (-350/3 = -116.66666666666663) is a rounded f64, its text needs up to
\* 17 significant digits and its significand is above 2^53.
f64_to_string(num, den) ==
    LET g == Gcd(num, den)
    IN [num |-> num \div g, den |-> den \div g, digits17 |-> ~IsPowerOfTwo(den \div g)]

\* serde_json reads a number into an f64. A build with the float_roundtrip feature
\* finds the nearest f64. A build without it parses with best effort: the
\* significand is converted to f64 and then multiplied or divided by a power of
\* ten, two roundings, so a text of 17 digits can come back as a neighbour of the
\* f64 that was written. ulp: the distance to the nearest f64 of the text, in
\* units of the last place.
parse_f64(text, roundtrip) ==
    {[num |-> text.num, den |-> text.den, ulp |-> u] :
        u \in IF roundtrip \/ ~text.digits17 THEN {0} ELSE {-1, 0, 1}}

\* serde_json::to_string(self): the derived Serialize of WeightedRoundRobin and
\* of AngstromValidator; the validators are written in the iteration order of the
\* HashSet.
to_string(V, den, pen, block_number) ==
    {[validators |-> [i \in DOMAIN s |->
                         [peer_id |-> s[i],
                          voting_power |-> V[s[i]].voting_power,
                          priority |-> f64_to_string(V[s[i]].priority, den)]],
      new_joiner_penalty_factor |-> f64_to_string(pen[1], pen[2]),
      block_number |-> block_number] : s \in IterationOrders(DOMAIN V)}

\* serde_json::from_str(&contents): the derived Deserialize; the validators are
\* collected into a HashSet keyed by peer_id and the priorities are brought to one
\* denominator again.
from_str(text, roundtrip) ==
    LET items == text.validators
        peers == {items[i].peer_id : i \in DOMAIN items}
        item == [p \in peers |-> items[CHOOSE i \in DOMAIN items : items[i].peer_id = p]]
        den == LcmOver({item[p].priority.den : p \in peers})
        parses == [p \in peers |-> parse_f64(item[p].priority, roundtrip)]
        ulps == UNION {{x.ulp : x \in parses[p]} : p \in peers}
    IN {[validators |-> [p \in peers |->
                            LET pr == CHOOSE x \in parses[p] : x.ulp = u[p]
                            IN [voting_power |-> item[p].voting_power,
                                priority |-> pr.num * (den \div pr.den),
                                ulp |-> pr.ulp]],
         den |-> den,
         new_joiner_penalty_factor |-> f,
         block_number |-> text.block_number] :
            u \in {g \in [peers -> ulps] :
                      \A p \in peers : \E x \in parses[p] : x.ulp = g[p]},
            f \in parse_f64(text.new_joiner_penalty_factor, roundtrip)}

\* The validators argument of WeightedRoundRobin::new: peer_id -> voting_power.
NewValidators == {[p \in {"Alice"} |-> 1], [p \in {"Bob", "Charlie"} |-> 2]}

\* The block_number argument of WeightedRoundRobin::new.
NewBlockNumbers == {0, 5}

\* The validators of the selector that is checkpointed: voting powers in the
\* proportions of leader_selection's tests (100 : 200 : 300 and 100 : 100 : 300).
CkptValidators ==
    { [p \in Peers |-> AngstromValidator(CASE p = "Alice" -> 1 [] p = "Bob" -> 2
                                           [] OTHER -> 3)],
      [p \in Peers |-> AngstromValidator(IF p = "Charlie" THEN 3 ELSE 1)] }

\* The selectors that are checkpointed: a selector made by new, after the rounds
\* of up to MaxCkptRounds blocks, and such a selector after one validator left,
\* joined again and a further block was chosen for.
MaxCkptRounds == 2

CkptSelectors ==
    LET ran == UNION {UNION {{[validators |-> o.validators, den |-> o.den,
                               block_number |-> n] :
                                 o \in ChooseOutcomes(V, 1, None, n)} :
                             n \in 0..MaxCkptRounds} : V \in CkptValidators}
        rejoined(s) ==
            UNION {LET left == remove_validator(s.validators, s.den, p)
                       back == add_validator(left.validators, left.den, DefaultPenalty, p,
                                             s.validators[p].voting_power)
                   IN {[validators |-> o.validators, den |-> o.den,
                        block_number |-> s.block_number + 1] :
                          o \in ChooseOutcomes(back.validators, back.den, None, 1)} :
                   p \in DOMAIN s.validators}
    IN ran \cup UNION {rejoined(s) : s \in ran}

InitCkpt ==
    /\ ToBUnused
    /\ LiveUnused
    /\ ConUnused
    /\ SWUnused
    /\ CMUnused
    /\ PMUnused
    /\ \E s \in CkptSelectors :
          /\ validators = s.validators
          /\ pden = s.den
          /\ wrr_block_number = s.block_number
    /\ penalty = unwrap_or(None, DefaultPenalty)
    /\ wrr_pc = "idle"
    /\ wrr_target = 0
    /\ rounds_to_catchup = 0
    /\ round_i = 0
    /\ leader = None
    /\ ret = None
    /\ wrr_ops = 0
    /\ validators2 = << >>
    /\ pden2 = 1
    /\ wrr_block_number2 = 0
    /\ ret2 = None
    /\ stats = << >>
    /\ state_json = None
    /\ saved = None
    /\ loaded = None
    /\ float_roundtrip \in BOOLEAN

\* save_state: the selector is written to ./state.json.
save_state ==
    /\ wrr_pc = "idle"
    /\ \E serialized \in to_string(validators, pden, penalty, wrr_block_number) :
          state_json' = Some(serialized)
    /\ saved' = Some([validators |-> validators, den |-> pden,
                      new_joiner_penalty_factor |-> penalty,
                      block_number |-> wrr_block_number])
    /\ UNCHANGED <<loaded, float_roundtrip>>
    /\ UNCHANGED <<pmvars, wrrvars, tobvars, cmvars, swvars, convars, livevars>>

\* Drop for WeightedRoundRobin: save_state().unwrap(), and the selector is gone.
Drop ==
    /\ wrr_pc = "idle"
    /\ wrr_pc' = "dropped"
    /\ \E serialized \in to_string(validators, pden, penalty, wrr_block_number) :
          state_json' = Some(serialized)
    /\ saved' = Some([validators |-> validators, den |-> pden,
                      new_joiner_penalty_factor |-> penalty,
                      block_number |-> wrr_block_number])
    /\ UNCHANGED <<loaded, float_roundtrip>>
    /\ UNCHANGED <<validators, pden, wrr_block_number, penalty, wrr_target,
                   rounds_to_catchup, round_i, leader, ret, wrr_ops, validators2, pden2,
                   wrr_block_number2, ret2, stats>>
    /\ UNCHANGED <<pmvars, tobvars, cmvars, swvars, convars, livevars>>

\* WeightedRoundRobin::new(validators, block_number, new_joiner_penalty_factor):
\* the state of ./state.json when the file opens and parses, else a selector made
\* of the arguments.
WeightedRoundRobin_new(vals, block_number, new_joiner_penalty_factor) ==
    /\ IF state_json # None
       THEN \E state \in from_str(state_json[1], float_roundtrip) :
               loaded' = Some(state)
       ELSE \E f \in {unwrap_or(new_joiner_penalty_factor, DefaultPenalty)} :
               loaded' = Some([validators |-> [p \in DOMAIN vals |->
                                                 [voting_power |-> vals[p],
                                                  priority |-> 0, ulp |-> 0]],
                               den |-> 1,
                               new_joiner_penalty_factor |->
                                   [num |-> f[1], den |-> f[2], ulp |-> 0],
                               block_number |-> block_number])
    /\ UNCHANGED <<state_json, saved, float_roundtrip>>
    /\ UNCHANGED <<pmvars, wrrvars, tobvars, cmvars, swvars, convars, livevars>>

NextCkpt ==
    \/ save_state
    \/ Drop
    \/ \E vals \in NewValidators, b \in NewBlockNumbers, f \in PenaltyFactors :
          WeightedRoundRobin_new(vals, b, f)

SpecCkpt == InitCkpt /\ [][NextCkpt]_vars

\* The selector l that new returned is the selector s that was saved: the same
\* validators with the same voting powers and the same f64 priorities, the same
\* penalty factor and the same block number.
SameSelector(l, s) ==
    /\ DOMAIN l.validators = DOMAIN s.validators
    /\ \A p \in DOMAIN l.validators :
          /\ l.validators[p].voting_power = s.validators[p].voting_power
          /\ l.validators[p].priority * s.den = s.validators[p].priority * l.den
          /\ l.validators[p].ulp = 0
    /\ l.new_joiner_penalty_factor.num * s.new_joiner_penalty_factor[2]
          = s.new_joiner_penalty_factor[1] * l.new_joiner_penalty_factor.den
    /\ l.new_joiner_penalty_factor.ulp = 0
    /\ l.block_number = s.block_number

\* C31: after save_state, WeightedRoundRobin::new with any arguments returns the
\* saved selector: the same validators with their voting powers and priorities,
\* the same penalty factor and the same block number, whatever validators and
\* block number the call passes.
C31_CheckpointRoundTrip ==
    [][ (/\ saved # None
         /\ \E vals \in NewValidators, b \in NewBlockNumbers, f \in PenaltyFactors :
               WeightedRoundRobin_new(vals, b, f))
        => SameSelector(loaded'[1], saved[1]) ]_vars

\* A selector was saved with a priority of 17 digits and the constructor of a
\* build without float_roundtrip returned it with that priority one unit in the
\* last place off.
LoadedPriorityOffByOneUlp ==
    /\ saved # None
    /\ loaded # None
    /\ ~float_roundtrip
    /\ DOMAIN loaded[1].validators = DOMAIN saved[1].validators
    /\ loaded[1].block_number = saved[1].block_number
    /\ \E p \in DOMAIN loaded[1].validators : loaded[1].validators[p].ulp # 0

\* In a build that parses floats exactly the constructor returns the saved
\* selector.
RoundTripWithExactFloats ==
    [][ (/\ saved # None
         /\ float_roundtrip
         /\ \E vals \in NewValidators, b \in NewBlockNumbers, f \in PenaltyFactors :
               WeightedRoundRobin_new(vals, b, f))
        => SameSelector(loaded'[1], saved[1]) ]_vars

\* Whatever the build, the constructor returns the validators, voting powers and
\* block number of the file and no argument of the call, and every priority is
\* the saved one or a neighbouring f64.
LoadedIgnoresArguments ==
    [][ (/\ saved # None
         /\ \E vals \in NewValidators, b \in NewBlockNumbers, f \in PenaltyFactors :
               WeightedRoundRobin_new(vals, b, f))
        => /\ DOMAIN loaded'[1].validators = DOMAIN saved[1].validators
           /\ \A p \in DOMAIN saved[1].validators :
                 /\ loaded'[1].validators[p].voting_power
                       = saved[1].validators[p].voting_power
                 /\ loaded'[1].validators[p].priority * saved[1].den
                       = saved[1].validators[p].priority * loaded'[1].den
           /\ loaded'[1].block_number = saved[1].block_number ]_vars

(***************************************************************************)
(* Leader selection: test_round_robin_simulation                           *)
(***************************************************************************)
Rounds == 1000

FairPower == [Alice |-> 100, Bob |-> 200, Charlie |-> 300]

InitFair ==
    /\ ToBUnused
    /\ FSUnused
    /\ LiveUnused
    /\ ConUnused
    /\ SWUnused
    /\ CMUnused
    /\ PMUnused
    /\ validators = [p \in Peers |-> AngstromValidator(FairPower[p])]
    /\ pden = 1
    /\ wrr_block_number = 0
    /\ penalty = DefaultPenalty
    /\ wrr_pc = "idle"
    /\ wrr_target = 0
    /\ rounds_to_catchup = 0
    /\ round_i = 0
    /\ leader = None
    /\ ret = None
    /\ wrr_ops = 0
    /\ validators2 = << >>
    /\ pden2 = 1
    /\ wrr_block_number2 = 0
    /\ ret2 = None
    /\ stats = [p \in Peers |-> 0]

\* simulate_rounds: algo.choose_proposer(i).unwrap() for the next i, counted in stats.
SimulateRound ==
    /\ wrr_pc = "idle"
    /\ wrr_block_number < Rounds
    /\ LET i == wrr_block_number + 1
       IN /\ wrr_target' = i
          /\ wrr_block_number' = i
          /\ \E o \in ChooseOutcomes(validators, pden, None, i - wrr_block_number) :
                /\ validators' = o.validators
                /\ pden' = o.den
                /\ ret' = o.leader
                /\ IF o.leader = None
                   THEN wrr_pc' = "panicked" /\ UNCHANGED stats
                   ELSE /\ stats' = [stats EXCEPT ![o.leader[1]] = @ + 1]
                        /\ UNCHANGED wrr_pc
    /\ UNCHANGED <<penalty, rounds_to_catchup, round_i, leader, wrr_ops, validators2, pden2,
                   wrr_block_number2, ret2>>
    /\ UNCHANGED <<pmvars, tobvars, cmvars, swvars, convars, livevars, fsvars>>

NextFair == SimulateRound

SpecFair == InitFair /\ [][NextFair]_vars

\* C6: with voting powers 100, 200, 300 and one choose_proposer call per block
\* 1..1000, every call returns a proposer, all three validators are selected, and
\* each share of the 1000 selections is within 0.05 of the voting-power share.
C6_SelectionFair ==
    /\ wrr_pc # "panicked"
    /\ SumOver(stats, Peers) = wrr_block_number
    /\ wrr_block_number = Rounds
       => \A p \in Peers :
             /\ stats[p] > 0
             /\ 20 * Abs(stats[p] * 600 - FairPower[p] * Rounds) <= 600 * Rounds

\* C6 witness: the thousandth call has returned and every validator was selected.
C6_Witness ==
    /\ wrr_block_number = Rounds
    /\ ret # None
    /\ \A p \in Peers : stats[p] > 0

(***************************************************************************)
(* Top-of-block reward allocation: calculate_reward (tob.rs)               *)
(***************************************************************************)
\* U256 arithmetic. The operators + and - of U256 wrap; checked_sub does not.
U256_MOD == 2 ^ U256Bits

wrapping_add(a, b) == (a + b) % U256_MOD

wrapping_sub(a, b) == (a - b + U256_MOD) % U256_MOD

\* Variant of checked_sub below that wraps instead of reporting the underflow.
checked_sub_wrapping(a, b) == Some(wrapping_sub(a, b))

checked_sub(a, b) == IF a >= b THEN Some(a - b) ELSE None

\* Largest value I256::try_from accepts.
I256_MAX == (U256_MOD \div 2) - 1

\* Ray: a fixed-point price, an unsigned integer counting units of 1/RAY.
RAY == 2

\* Ray::calc_price(a, b): the price a / b, rounded down (b > 0).
calc_price(a, b) == ((a * RAY) \div b) % U256_MOD

\* Ray::mul_quantity(q): price times quantity, rounded down.
mul_quantity(ray, q) == ((ray * q) \div RAY) % U256_MOD

\* Ray - Ray and Ray += Ray.
RaySub(a, b) == wrapping_sub(a, b)

RayAdd(a, b) == wrapping_add(a, b)

\* Sqrt prices are fixed-point numbers counting units of 1/SqrtQ.
SqrtQ == 2

\* Ray::from(SqrtPriceX96): the square of the sqrt price.
RayFromSqrtPrice(p) == ((p * p * RAY) \div (SqrtQ * SqrtQ)) % U256_MOD

MIN_TICK == -TickSpan

MAX_TICK == TickSpan

\* get_sqrt_ratio_at_tick: an error outside MIN_TICK..MAX_TICK, else a sqrt price
\* that grows with the tick.
get_sqrt_ratio_at_tick(t) ==
    IF t < MIN_TICK \/ t > MAX_TICK THEN None ELSE Some(t + TickSpan + SqrtQ)

fee_pips == 600

mul_div_rounding_up(a, b, c) == (a * b + c - 1) \div c

\* compute_swap_step for an exact output (amount_remaining < 0): an error, or a
\* step that buys at most the remaining output; a step that buys less than the
\* remaining output ends at the target price, and a range without liquidity
\* trades nothing. The fee is amount_in * fee_pips / (1e6 - fee_pips), rounded up.
compute_swap_step(sqrt_ratio_current, sqrt_ratio_target, liquidity, amount_remaining) ==
    {None} \cup
    IF liquidity = 0
    THEN {Some([fin_price |-> sqrt_ratio_target, amount_in |-> 0, amount_out |-> 0,
                amount_fee |-> 0])}
    ELSE {Some([fin_price |-> f, amount_in |-> i, amount_out |-> o,
                amount_fee |-> mul_div_rounding_up(i, fee_pips, 1000000 - fee_pips)]) :
            <<f, i, o>> \in
              {x \in (Min(sqrt_ratio_current, sqrt_ratio_target) ..
                      Max(sqrt_ratio_current, sqrt_ratio_target))
                     \X (0 .. MaxStepIn) \X (0 .. (-amount_remaining)) :
                  x[3] < -amount_remaining => x[1] = sqrt_ratio_target}}

\* MarketSnapshot::liquidity_at_tick: the liquidity of the range holding the tick.
liquidity_at_tick(snapshot, t) ==
    IF snapshot.range.lower_tick <= t /\ t < snapshot.range.upper_tick
    THEN Some(snapshot.range.liquidity)
    ELSE None

\* MarketSnapshot::current_position().liquidity()
current_position_liquidity(snapshot) == snapshot.range.liquidity

\* PoolRange::new(lower_tick, upper_tick, liquidity)
PoolRanges ==
    {[lower_tick |-> b[1], upper_tick |-> b[2], liquidity |-> l] :
        b \in {<<-1, TickSpan - 1>>, <<MIN_TICK, MAX_TICK + 1>>}, l \in 0 .. 1}

\* MarketSnapshot::new(ranges, sqrt_price_x96) with the price at a tick of the range.
Snapshots ==
    {[current_tick |-> t, sqrt_price_x96 |-> get_sqrt_ratio_at_tick(t)[1], range |-> r] :
        <<r, t>> \in {x \in PoolRanges \X (MIN_TICK .. MAX_TICK) :
                        x[1].lower_tick <= x[2] /\ x[2] < x[1].upper_tick}}

\* Top-of-block orders: direction, input amount and output amount.
Orders ==
    {[is_bid |-> b, order |-> [amountIn |-> i, amountOut |-> o]] :
        b \in BOOLEAN, i \in 0 .. MaxAmountIn,
        o \in (0 .. MaxAmountOut) \cup {I256_MAX + 1}}

\* calculate_reward(tob, amm) has been called.
InitToB ==
    /\ WRRUnused
    /\ PMUnused
    /\ FSUnused
    /\ LiveUnused
    /\ ConUnused
    /\ SWUnused
    /\ CMUnused
    /\ tob_pc = "entry"
    /\ tob \in Orders
    /\ amm \in Snapshots
    /\ tick_motion = 0
    /\ current_tick = 0
    /\ current_price = 0
    /\ expected_out = 0
    /\ total_cost = 0
    /\ stakes = << >>
    /\ bribe = 0
    /\ rem_bribe = 0
    /\ cur_q = 0
    /\ filled_price = 0
    /\ stake_iter = 0
    /\ partial_dprice = None
    /\ reward_t = 0
    /\ outcome = None
    /\ tob_err = ""

\* Lines 67-86: the locals of the swap loop; the output amount must fit an I256.
Enter ==
    /\ tob_pc = "entry"
    /\ tick_motion' = IF tob.is_bid THEN 1 ELSE -1
    /\ current_tick' = amm.current_tick
    /\ current_price' = amm.sqrt_price_x96
    /\ total_cost' = 0
    /\ stakes' = << >>
    /\ IF tob.order.amountOut > I256_MAX
       THEN /\ tob_pc' = "failed"
            /\ tob_err' = "Expected ToB order output too large to convert U256 -> I256"
            /\ UNCHANGED expected_out
       ELSE /\ expected_out' = -tob.order.amountOut
            /\ tob_pc' = IF expected_out' < 0 THEN "swap" ELSE "bribe"
            /\ UNCHANGED tob_err
    /\ UNCHANGED <<tob, amm, bribe, rem_bribe, cur_q, filled_price, stake_iter,
                   partial_dprice, reward_t, outcome>>
    /\ UNCHANGED <<pmvars, wrrvars, cmvars, swvars, convars, livevars, fsvars>>

\* Variant of step_tick below that stays at the tick.
step_tick_stay(t, motion) == t

\* current_tick + tick_motion: the next tick in the order's direction.
step_tick(t, motion) == t + motion

\* One iteration of the swap loop that ends in one of its error returns.
SwapStepErr ==
    /\ tob_pc = "swap"
    /\ expected_out < 0
    /\ LET next_tick == step_tick(current_tick, tick_motion)
           next_price == get_sqrt_ratio_at_tick(next_tick)
           liquidity == liquidity_at_tick(amm, current_tick)
       IN  \/ /\ next_price = None
              /\ tob_err' = "Unable to get SqrtPrice at tick"
           \/ /\ next_price # None
              /\ liquidity = None
              /\ tob_err' = "Unable to find liquidity for tick"
           \/ /\ next_price # None
              /\ liquidity # None
              /\ None \in compute_swap_step(current_price, next_price[1], liquidity[1],
                                            expected_out)
              /\ tob_err' = "Unable to compute swap step"
    /\ tob_pc' = "failed"
    /\ UNCHANGED <<tob, amm, tick_motion, current_tick, current_price, expected_out,
                   total_cost, stakes, bribe, rem_bribe, cur_q, filled_price, stake_iter,
                   partial_dprice, reward_t, outcome>>
    /\ UNCHANGED <<pmvars, wrrvars, cmvars, swvars, convars, livevars, fsvars>>

\* One iteration of the swap loop (lines 93-137) in which compute_swap_step
\* returns a step. Ray::calc_price divides by the step's output.
SwapStep ==
    /\ tob_pc = "swap"
    /\ expected_out < 0
    /\ LET next_tick == step_tick(current_tick, tick_motion)
           next_price == get_sqrt_ratio_at_tick(next_tick)
           liquidity == liquidity_at_tick(amm, current_tick)
       IN  /\ next_price # None
           /\ liquidity # None
           /\ \E r \in compute_swap_step(current_price, next_price[1], liquidity[1],
                                         expected_out) :
                 /\ r # None
                 /\ LET step == r[1]
                        end_price == RayFromSqrtPrice(step.fin_price)
                    IN  /\ expected_out' = expected_out + step.amount_out
                        /\ total_cost' = wrapping_add(wrapping_add(total_cost, step.amount_in),
                                                      step.amount_fee)
                        /\ IF step.amount_out = 0
                           THEN /\ tob_pc' = "panicked"
                                /\ UNCHANGED <<stakes, current_tick, current_price>>
                           ELSE /\ stakes' = Append(stakes,
                                       [avg_price |-> calc_price(step.amount_in,
                                                                 step.amount_out),
                                        end_price |-> end_price,
                                        amount_out |-> step.amount_out])
                                /\ current_tick' = step_tick(current_tick, tick_motion)
                                /\ current_price' = step.fin_price
                                /\ tob_pc' = IF expected_out' < 0 THEN "swap" ELSE "bribe"
    /\ UNCHANGED <<tob, amm, tick_motion, bribe, rem_bribe, cur_q, filled_price,
                   stake_iter, partial_dprice, reward_t, outcome, tob_err>>
    /\ UNCHANGED <<pmvars, wrrvars, cmvars, swvars, convars, livevars, fsvars>>

\* Lines 141-154: the bribe is what the input amount leaves after the cost; the
\* sweep starts at the first stake.
Bribe ==
    /\ tob_pc = "bribe"
    /\ LET b == checked_sub(tob.order.amountIn, total_cost)
       IN  IF b = None
           THEN /\ tob_pc' = "failed"
                /\ tob_err' = "Total cost greater than amount offered"
                /\ UNCHANGED <<bribe, rem_bribe, cur_q, filled_price, stake_iter>>
           ELSE /\ bribe' = b[1]
                /\ IF stakes = << >>
                   THEN /\ tob_pc' = "failed"
                        /\ tob_err' = "No actual purchases could be made with this TOB order"
                        /\ UNCHANGED <<rem_bribe, cur_q, filled_price, stake_iter>>
                   ELSE /\ rem_bribe' = b[1]
                        /\ cur_q' = 0
                        /\ filled_price' = stakes[1].avg_price
                        /\ stake_iter' = 1
                        /\ tob_pc' = "sweep"
                        /\ UNCHANGED tob_err
    /\ UNCHANGED <<tob, amm, tick_motion, current_tick, current_price, expected_out,
                   total_cost, stakes, partial_dprice, reward_t, outcome>>
    /\ UNCHANGED <<pmvars, wrrvars, cmvars, swvars, convars, livevars, fsvars>>

\* One iteration of the sweep (lines 155-183): the gap to the next stake's average
\* price (to the stake's own end price for the last stake) is paid in full, or the
\* rest of the bribe moves the filled price part of the way and the sweep ends.
SweepStep ==
    /\ tob_pc = "sweep"
    /\ stake_iter <= Len(stakes)
    /\ LET stake == stakes[stake_iter]
           q_step == wrapping_add(cur_q, stake.amount_out)
           target_price == IF stake_iter < Len(stakes)
                           THEN stakes[stake_iter + 1].avg_price
                           ELSE stake.end_price
           d_price == RaySub(target_price, stake.avg_price)
           step_cost == mul_quantity(d_price, q_step)
       IN  IF rem_bribe >= step_cost
           THEN /\ cur_q' = wrapping_add(cur_q, stake.amount_out)
                /\ filled_price' = target_price
                /\ rem_bribe' = rem_bribe - step_cost
                /\ stake_iter' = stake_iter + 1
                /\ tob_pc' = IF stake_iter < Len(stakes) THEN "sweep" ELSE "donate"
                /\ UNCHANGED partial_dprice
           ELSE /\ partial_dprice' = Some(calc_price(rem_bribe, q_step))
                /\ filled_price' = RayAdd(filled_price, partial_dprice'[1])
                /\ tob_pc' = "donate"
                /\ UNCHANGED <<cur_q, rem_bribe, stake_iter>>
    /\ UNCHANGED <<tob, amm, tick_motion, current_tick, current_price, expected_out,
                   total_cost, stakes, bribe, reward_t, outcome, tob_err>>
    /\ UNCHANGED <<pmvars, wrrvars, cmvars, swvars, convars, livevars, fsvars>>

\* HashMap::insert
Insert(m, k, v) == [x \in (DOMAIN m) \cup {k} |-> IF x = k THEN v ELSE m[x]]

\* The tick a stake's donation goes to, with every stake mapped to the start tick.
tick_num_start(i) == amm.current_tick

\* The tick a stake's donation goes to (line 192).
tick_num(i) == amm.current_tick + i * tick_motion

\* Lines 187-206: every stake whose average price is below the filled price gets
\* what it takes to bring its quantity up to the filled price, if that is positive.
RECURSIVE filter_map_collect(_, _, _)
filter_map_collect(i, m, r) ==
    IF i >= Len(stakes)
    THEN [tick_donations |-> m, reward_t |-> r]
    ELSE LET stake == stakes[i + 1]
             total_dprice == RaySub(filled_price, stake.avg_price)
             total_reward == mul_quantity(total_dprice, stake.amount_out)
         IN  IF filled_price > stake.avg_price /\ total_reward > 0
             THEN filter_map_collect(i + 1, Insert(m, tick_num(i), total_reward),
                                     wrapping_add(r, total_reward))
             ELSE filter_map_collect(i + 1, m, r)

\* Lines 187-216: the donations, the tribute and the returned outcome.
Donate ==
    /\ tob_pc = "donate"
    /\ LET d == filter_map_collect(0, << >>, 0)
       IN  /\ reward_t' = d.reward_t
           /\ outcome' = Some([start_tick |-> amm.current_tick,
                               start_liquidity |-> current_position_liquidity(amm),
                               tribute |-> wrapping_sub(bribe, d.reward_t),
                               total_cost |-> total_cost,
                               tick_donations |-> d.tick_donations])
    /\ tob_pc' = "done"
    /\ UNCHANGED <<tob, amm, tick_motion, current_tick, current_price, expected_out,
                   total_cost, stakes, bribe, rem_bribe, cur_q, filled_price, stake_iter,
                   partial_dprice, tob_err>>
    /\ UNCHANGED <<pmvars, wrrvars, cmvars, swvars, convars, livevars, fsvars>>

NextToB ==
    \/ Enter
    \/ SwapStepErr
    \/ SwapStep
    \/ Bribe
    \/ SweepStep
    \/ Donate

SpecToB == InitToB /\ [][NextToB]_vars

\* ToBOutcome::total_donations: the donations added up as U256 values.
RECURSIVE fold_donations(_, _)
fold_donations(m, S) ==
    IF S = {} THEN 0
    ELSE LET t == CHOOSE x \in S : TRUE
         IN  wrapping_add(fold_donations(m, S \ {t}), m[t])

total_donations(o) == fold_donations(o.tick_donations, DOMAIN o.tick_donations)

ToBNoDonation ==
    /\ tob_pc = "done"
    /\ DOMAIN outcome[1].tick_donations = {}
    /\ bribe > 0

\* An outcome whose donations exceed the bribe.
ToBOverDonation ==
    /\ tob_pc = "done"
    /\ reward_t > bribe

\* C24: in every successful calculate_reward the donations add up to at most the
\* bribe = input amount - total cost, so the tribute is bribe - donations without
\* underflow.
C24_NeverOverDonates ==
    tob_pc = "done" =>
       LET o == outcome[1]
       IN  /\ bribe = tob.order.amountIn - o.total_cost
           /\ SumOver(o.tick_donations, DOMAIN o.tick_donations) <= bribe
           /\ o.tribute = bribe - SumOver(o.tick_donations, DOMAIN o.tick_donations)

\* An outcome whose donations exceed the bribe although the average prices of
\* the stakes rise from stake to stake, every stake ends at or above its average
\* price, and the bribe paid every gap in full.
ToBOverDonationByRounding ==
    /\ tob_pc = "done"
    /\ reward_t > bribe
    /\ partial_dprice = None
    /\ \A i \in 1..Len(stakes) :
          /\ stakes[i].avg_price <= stakes[i].end_price
          /\ i < Len(stakes) => stakes[i].avg_price <= stakes[i + 1].avg_price

\* C25: when the cost of the swap steps (amounts in plus fees) exceeds the order's
\* input amount, calculate_reward fails with 'Total cost greater than amount
\* offered' and returns no outcome; no outcome is returned for such an order.
C25_CostAboveInputFails ==
    /\ [][ (tob_pc = "bribe" /\ total_cost > tob.order.amountIn) =>
              /\ tob_pc' = "failed"
              /\ tob_err' = "Total cost greater than amount offered"
              /\ outcome' = None ]_vars
    /\ [](tob_pc = "done" => total_cost <= tob.order.amountIn)
    /\ [](tob_pc = "failed" => outcome = None)

\* A call that failed on its cost after two swap steps.
C25_Witness ==
    /\ tob_pc = "failed"
    /\ tob_err = "Total cost greater than amount offered"
    /\ Len(stakes) >= 2
    /\ total_cost > tob.order.amountIn

\* calculate_reward is sequential code: a step that can run does run.
SpecToBLive == InitToB /\ [][NextToB]_vars /\ WF_vars(NextToB)

\* The swap loop is at a tick it cannot trade at: outside the range of the
\* snapshot, or with the next tick outside the valid ticks.
OutOfRange ==
    \/ current_tick < amm.range.lower_tick
    \/ current_tick >= amm.range.upper_tick
    \/ current_tick + tick_motion \notin MIN_TICK..MAX_TICK

\* C26: calculate_reward always terminates; the swap loop walks one tick per step
\* in the order's direction, and when it is out of the snapshot's range or of the
\* valid ticks with output still to buy, it returns an error and no outcome.
C26_RewardTerminates ==
    /\ [][ /\ (tob_pc = "swap" /\ tob_pc' \in {"swap", "bribe"}) =>
                 /\ current_tick' = current_tick + tick_motion
                 /\ ~OutOfRange
           /\ (tob_pc = "swap" /\ expected_out < 0 /\ OutOfRange) =>
                 /\ tob_pc' = "failed"
                 /\ outcome' = None ]_vars
    /\ [](tob_pc \in {"swap", "bribe", "sweep", "donate"} =>
             current_tick = amm.current_tick + Len(stakes) * tick_motion)
    /\ (tob_pc = "entry") ~> (tob_pc \in {"done", "failed", "panicked"})

\* A call that walked two ticks and then failed for want of liquidity.
C26_Witness ==
    /\ tob_pc = "failed"
    /\ tob_err = "Unable to find liquidity for tick"
    /\ Len(stakes) >= 2

(***************************************************************************)
(* Consensus manager                                                       *)
(* The manager's leader_selection field is the selector of the variables   *)
(* validators, pden and wrr_block_number. RoundStateMachine and            *)
(* StromConsensusEvent are not part of the sources at hand; they follow    *)
(* the description of the round state machine.                             *)
(***************************************************************************)
\* The peer id of the signer this node was constructed with.
my_id == "Alice"

\* StromConsensusEvent: kind, claimed block height, peer the payload comes from.
StromConsensusEvent(kind, block_height, payload_source) ==
    [kind |-> kind, block_height |-> block_height, source |-> payload_source]

Events ==
    { StromConsensusEvent(k, h, p) :
         k \in {"PrePropose", "Propose"}, h \in 1..MaxTarget, p \in {my_id, "Bob"} }

\* A canonical-state notification, by the number of its tip.
CanonStateNotification(n) == [tip |-> n]

\* RoundStateMachine::new / reset_round(height, leader)
reset_round(new_height, new_leader) ==
    [height |-> new_height, leader |-> new_leader, state |-> "BidSubmission",
     pre_proposals |-> << >>, proposal |-> None]

\* RoundStateMachine::i_am_leader
i_am_leader(st) == st.leader = my_id

\* RoundStateMachine::on_strom_message: a pre-proposal is collected while bids
\* are submitted or aggregated, a proposal is kept in Finalization. No reply.
on_strom_message(st, event) ==
    IF event.kind = "PrePropose" /\ st.state \in {"BidSubmission", "BidAggregation"}
    THEN [st EXCEPT !.pre_proposals = Append(@, event.source)]
    ELSE IF event.kind = "Propose" /\ st.state = "Finalization" /\ st.proposal = None
    THEN [st EXCEPT !.proposal = Some(event.source)]
    ELSE st

\* Variant of the stream below: a finished round starts over by itself.
poll_next_unpin_cyclic(st) ==
    IF st.state = "BidSubmission"
    THEN Some([st EXCEPT !.state = "BidAggregation"])
    ELSE IF st.state = "BidAggregation"
    THEN Some([st EXCEPT !.state = "Finalization",
                         !.proposal = IF i_am_leader(st) THEN Some(my_id) ELSE None])
    ELSE Some([st EXCEPT !.state = "BidSubmission", !.pre_proposals = << >>,
                         !.proposal = None])

\* RoundStateMachine as a Stream, when the timer of the live phase has fired: the
\* next phase, none after Finalization. The leader enters Finalization with its
\* proposal.
poll_next_unpin(st) ==
    IF st.state = "BidSubmission"
    THEN Some([st EXCEPT !.state = "BidAggregation"])
    ELSE IF st.state = "BidAggregation"
    THEN Some([st EXCEPT !.state = "Finalization",
                         !.proposal = IF i_am_leader(st) THEN Some(my_id) ELSE None])
    ELSE None

\* RoundStateMachine::my_pre_proposal
my_pre_proposal(st) == Some(StromConsensusEvent("PrePropose", st.height, my_id))

\* network.broadcast_message(msg)
broadcast_message(net, msg) == Append(net, [to |-> None, msg |-> msg])

\* The validator sets a manager is constructed with: equal voting powers, or this
\* node with the highest one.
CMValidators ==
    { [p \in Peers |-> AngstromValidator(1)],
      [p \in Peers |-> AngstromValidator(IF p = my_id THEN MaxPower ELSE 1)] }

\* ConsensusManager::new with a selector state saved at block 0 and
\* current_height = 1: choose_proposer(1) runs one round.
InitCM ==
    /\ ToBUnused
    /\ FSUnused
    /\ LiveUnused
    /\ ConUnused
    /\ SWUnused
    /\ PMUnused
    /\ \E V \in CMValidators :
          \E o \in ChooseOutcomes(V, 1, None, 1) :
             /\ validators = o.validators
             /\ pden = o.den
             /\ state_transition = reset_round(1, o.leader[1])
    /\ wrr_block_number = 1
    /\ penalty = DefaultPenalty
    /\ wrr_pc = "idle"
    /\ wrr_target = 0
    /\ rounds_to_catchup = 0
    /\ round_i = 0
    /\ leader = None
    /\ ret = None
    /\ wrr_ops = 0
    /\ validators2 = << >>
    /\ pden2 = 1
    /\ wrr_block_number2 = 0
    /\ ret2 = None
    /\ stats = << >>
    /\ cm_pc = "pending"
    /\ current_height = 1
    /\ broadcasted_messages = {}
    /\ network = << >>
    /\ canon_seen = 0
    /\ events_seen = 0

\* poll, first source: nothing is ready on the canonical block stream, or its
\* item is an Err, which is only logged.
PollNoBlock ==
    /\ cm_pc = "pending"
    /\ \/ UNCHANGED canon_seen
       \/ /\ canon_seen < MaxNotifications
          /\ canon_seen' = canon_seen + 1
    /\ cm_pc' = "poll_event"
    /\ UNCHANGED <<current_height, state_transition, broadcasted_messages, network,
                   events_seen>>
    /\ UNCHANGED <<validators, pden, wrr_block_number, penalty, wrr_pc, wrr_target,
                   rounds_to_catchup, round_i, leader, ret, wrr_ops, validators2,
                   pden2, wrr_block_number2, ret2, stats>>
    /\ UNCHANGED <<pmvars, tobvars, swvars, convars, livevars, fsvars>>

\* poll, first source: on_blockchain_state(notification). choose_proposer
\* subtracts the selector's block number from the tip's (u64: a lower tip
\* panics, or wraps into a loop that does not end), runs no round for an equal
\* tip, and the manager unwraps the leader it returns.
on_blockchain_state(notification) ==
    /\ cm_pc = "pending"
    /\ canon_seen < MaxNotifications
    /\ canon_seen' = canon_seen + 1
    /\ LET new_block == notification.tip
       IN  /\ current_height' = new_block
           /\ IF new_block < wrr_block_number
              THEN /\ cm_pc' \in {"panicked", "hung"}
                   /\ UNCHANGED <<validators, pden, wrr_block_number,
                                  state_transition, broadcasted_messages>>
              ELSE IF new_block = wrr_block_number
              THEN /\ cm_pc' = "panicked"
                   /\ UNCHANGED <<validators, pden, wrr_block_number,
                                  state_transition, broadcasted_messages>>
              ELSE \E o \in ChooseOutcomes(validators, pden, None,
                                             new_block - wrr_block_number) :
                      /\ validators' = o.validators
                      /\ pden' = o.den
                      /\ wrr_block_number' = new_block
                      /\ state_transition' = reset_round(new_block, o.leader[1])
                      /\ broadcasted_messages' = {}
                      /\ cm_pc' = "poll_event"
    /\ UNCHANGED <<network, events_seen>>
    /\ UNCHANGED <<penalty, wrr_pc, wrr_target, rounds_to_catchup, round_i, leader, ret,
                   wrr_ops, validators2, pden2, wrr_block_number2, ret2, stats>>
    /\ UNCHANGED <<pmvars, tobvars, swvars, convars, livevars, fsvars>>

\* Variant of on_network_event below without the check of the payload source.
on_network_event_keep_own(event) ==
    IF current_height # event.block_height
    THEN [state_transition |-> state_transition,
          broadcasted_messages |-> broadcasted_messages, network |-> network]
    ELSE [state_transition |-> on_strom_message(state_transition, event),
          broadcasted_messages |-> broadcasted_messages \cup {event},
          network |-> IF event \notin broadcasted_messages
                      THEN broadcast_message(network, event) ELSE network]

\* Variant of on_network_event below that gossips without looking at the set.
on_network_event_always_gossip(event) ==
    IF current_height # event.block_height \/ my_id = event.source
    THEN [state_transition |-> state_transition,
          broadcasted_messages |-> broadcasted_messages, network |-> network]
    ELSE [state_transition |-> on_strom_message(state_transition, event),
          broadcasted_messages |-> broadcasted_messages \cup {event},
          network |-> broadcast_message(network, event)]

\* on_network_event(event): the fields it leaves behind, and whether the event
\* was handed to state_transition.on_strom_message.
on_network_event(event) ==
    IF current_height # event.block_height \/ my_id = event.source
    THEN [state_transition |-> state_transition,
          broadcasted_messages |-> broadcasted_messages, network |-> network,
          delivered |-> FALSE]
    ELSE [state_transition |-> on_strom_message(state_transition, event),
          broadcasted_messages |-> broadcasted_messages \cup {event},
          network |-> IF event \notin broadcasted_messages
                      THEN broadcast_message(network, event) ELSE network,
          delivered |-> TRUE]

\* poll, second source: no inbound event is ready.
PollNoEvent ==
    /\ cm_pc = "poll_event"
    /\ cm_pc' = "poll_state"
    /\ UNCHANGED <<current_height, state_transition, broadcasted_messages, network,
                   canon_seen, events_seen>>
    /\ UNCHANGED <<validators, pden, wrr_block_number, penalty, wrr_pc, wrr_target,
                   rounds_to_catchup, round_i, leader, ret, wrr_ops, validators2,
                   pden2, wrr_block_number2, ret2, stats>>
    /\ UNCHANGED <<pmvars, tobvars, swvars, convars, livevars, fsvars>>

\* poll, second source: the inbound event that is ready goes to on_network_event.
PollEvent(event) ==
    /\ cm_pc = "poll_event"
    /\ cm_pc' = "poll_state"
    /\ events_seen < MaxEvents
    /\ events_seen' = events_seen + 1
    /\ LET r == on_network_event(event)
       IN  /\ state_transition' = r.state_transition
           /\ broadcasted_messages' = r.broadcasted_messages
           /\ network' = r.network
    /\ UNCHANGED <<current_height, canon_seen>>
    /\ UNCHANGED <<validators, pden, wrr_block_number, penalty, wrr_pc, wrr_target,
                   rounds_to_catchup, round_i, leader, ret, wrr_ops, validators2,
                   pden2, wrr_block_number2, ret2, stats>>
    /\ UNCHANGED <<pmvars, tobvars, swvars, convars, livevars, fsvars>>

\* Variant of on_state_start below: every node broadcasts on Finalization.
on_state_start_all(new_stat) ==
    IF new_stat.state = "BidAggregation"
    THEN [panic |-> my_pre_proposal(new_stat) = None,
          network |-> IF my_pre_proposal(new_stat) = None THEN network
                      ELSE broadcast_message(network, my_pre_proposal(new_stat)[1])]
    ELSE IF new_stat.state = "Finalization"
    THEN [panic |-> new_stat.proposal = None,
          network |-> IF new_stat.proposal = None THEN network
                      ELSE broadcast_message(network,
                              StromConsensusEvent("Propose", new_stat.height,
                                                  new_stat.proposal[1]))]
    ELSE [panic |-> FALSE, network |-> network]

\* on_state_start(new_stat): the messages it sends, and whether an unwrap panics.
on_state_start(new_stat) ==
    IF new_stat.state = "BidAggregation"
    THEN [panic |-> my_pre_proposal(new_stat) = None,
          network |-> IF my_pre_proposal(new_stat) = None THEN network
                      ELSE broadcast_message(network, my_pre_proposal(new_stat)[1])]
    ELSE IF new_stat.state = "Finalization" /\ i_am_leader(new_stat)
    THEN [panic |-> new_stat.proposal = None,
          network |-> IF new_stat.proposal = None THEN network
                      ELSE broadcast_message(network,
                              StromConsensusEvent("Propose", new_stat.height,
                                                  new_stat.proposal[1]))]
    ELSE [panic |-> FALSE, network |-> network]

\* poll, third source: the round state machine has no new phase; poll returns
\* Pending.
PollNoState ==
    /\ cm_pc = "poll_state"
    /\ cm_pc' = "pending"
    /\ UNCHANGED <<current_height, state_transition, broadcasted_messages, network,
                   canon_seen, events_seen>>
    /\ UNCHANGED <<validators, pden, wrr_block_number, penalty, wrr_pc, wrr_target,
                   rounds_to_catchup, round_i, leader, ret, wrr_ops, validators2,
                   pden2, wrr_block_number2, ret2, stats>>
    /\ UNCHANGED <<pmvars, tobvars, swvars, convars, livevars, fsvars>>

\* poll, third source: the timer of the live phase has fired and the round state
\* machine yields its next phase, which goes to on_state_start; poll returns
\* Pending.
PollState ==
    /\ cm_pc = "poll_state"
    /\ poll_next_unpin(state_transition) # None
    /\ LET new_state == poll_next_unpin(state_transition)[1]
           r == on_state_start(new_state)
       IN  /\ state_transition' = new_state
           /\ network' = r.network
           /\ cm_pc' = IF r.panic THEN "panicked" ELSE "pending"
    /\ UNCHANGED <<current_height, broadcasted_messages, canon_seen, events_seen>>
    /\ UNCHANGED <<validators, pden, wrr_block_number, penalty, wrr_pc, wrr_target,
                   rounds_to_catchup, round_i, leader, ret, wrr_ops, validators2,
                   pden2, wrr_block_number2, ret2, stats>>
    /\ UNCHANGED <<pmvars, tobvars, swvars, convars, livevars, fsvars>>

NextCM ==
    \/ PollNoBlock
    \/ \E n \in 0..MaxTarget : on_blockchain_state(CanonStateNotification(n))
    \/ PollNoEvent
    \/ \E e \in Events : PollEvent(e)
    \/ PollNoState
    \/ PollState

SpecCM == InitCM /\ [][NextCM]_vars

(***************************************************************************)
(* The manager as a task: queued items, wakers and the executor            *)
(***************************************************************************)
\* A manager at height 1 that its executor is about to poll for the first time;
\* the timer of BidSubmission runs.
InitLive ==
    /\ ToBUnused
    /\ FSUnused
    /\ ConUnused
    /\ SWUnused
    /\ PMUnused
    /\ \E V \in CMValidators :
          \E o \in ChooseOutcomes(V, 1, None, 1) :
             /\ validators = o.validators
             /\ pden = o.den
             /\ state_transition = reset_round(1, o.leader[1])
    /\ wrr_block_number = 1
    /\ penalty = DefaultPenalty
    /\ wrr_pc = "idle"
    /\ wrr_target = 0
    /\ rounds_to_catchup = 0
    /\ round_i = 0
    /\ leader = None
    /\ ret = None
    /\ wrr_ops = 0
    /\ validators2 = << >>
    /\ pden2 = 1
    /\ wrr_block_number2 = 0
    /\ ret2 = None
    /\ stats = << >>
    /\ cm_pc = "pending"
    /\ current_height = 1
    /\ broadcasted_messages = {}
    /\ network = << >>
    /\ canon_seen = 0
    /\ events_seen = 0
    /\ canonical_block_stream = << >>
    /\ strom_consensus_event = << >>
    /\ timer = "armed"
    /\ wakers = {}
    /\ woken = TRUE

LiveFrame ==
    UNCHANGED <<penalty, wrr_pc, wrr_target, rounds_to_catchup, round_i, leader, ret,
                wrr_ops, validators2, pden2, wrr_block_number2, ret2, stats,
                pmvars, tobvars, swvars, convars, fsvars>>

\* Waker::wake of the waker a source holds: the task is scheduled, the waker is
\* used up.
wake(source) ==
    IF source \in wakers
    THEN /\ woken' = TRUE
         /\ wakers' = wakers \ {source}
    ELSE UNCHANGED <<wakers, woken>>

\* A canonical-state notification is put on the stream; its tip is above the
\* manager's height and the tips queued before it.
BlockArrives(n) ==
    /\ canon_seen + Len(canonical_block_stream) < MaxNotifications
    /\ n > current_height
    /\ \A i \in DOMAIN canonical_block_stream : n > canonical_block_stream[i].tip
    /\ canonical_block_stream' = Append(canonical_block_stream, CanonStateNotification(n))
    /\ wake("block")
    /\ UNCHANGED <<cmvars, validators, pden, wrr_block_number, strom_consensus_event, timer>>
    /\ LiveFrame

\* The inbound events of the task runs: pre-proposals of another peer, for the
\* first height or the next.
LiveEvents == {e \in Events : e.kind = "PrePropose" /\ e.source # my_id /\ e.block_height <= 2}

\* The network puts an inbound event on the manager's channel.
EventArrives(event) ==
    /\ events_seen + Len(strom_consensus_event) < MaxEvents
    /\ strom_consensus_event' = Append(strom_consensus_event, event)
    /\ wake("event")
    /\ UNCHANGED <<cmvars, validators, pden, wrr_block_number, canonical_block_stream, timer>>
    /\ LiveFrame

\* The timer of the live phase fires.
TimerFires ==
    /\ timer = "armed"
    /\ timer' = "fired"
    /\ wake("state")
    /\ UNCHANGED <<cmvars, validators, pden, wrr_block_number, canonical_block_stream,
                   strom_consensus_event>>
    /\ LiveFrame

\* The executor polls the task it has scheduled.
Repoll ==
    /\ cm_pc = "pending"
    /\ woken
    /\ woken' = FALSE
    /\ cm_pc' = "poll_block"
    /\ UNCHANGED <<current_height, state_transition, broadcasted_messages, network,
                   canon_seen, events_seen, validators, pden, wrr_block_number,
                   canonical_block_stream, strom_consensus_event, timer, wakers>>
    /\ LiveFrame

\* poll: canonical_block_stream.poll_next_unpin(cx). Ready(Some) takes one
\* notification to on_blockchain_state; Pending leaves the waker with the stream.
LivePollBlock ==
    /\ cm_pc = "poll_block"
    /\ cm_pc' = "poll_event"
    /\ IF canonical_block_stream # << >>
       THEN LET new_block == Head(canonical_block_stream).tip
            IN /\ canonical_block_stream' = Tail(canonical_block_stream)
               /\ canon_seen' = canon_seen + 1
               /\ current_height' = new_block
               /\ \E o \in ChooseOutcomes(validators, pden, None,
                                          new_block - wrr_block_number) :
                     /\ validators' = o.validators
                     /\ pden' = o.den
                     /\ state_transition' = reset_round(new_block, o.leader[1])
               /\ wrr_block_number' = new_block
               /\ broadcasted_messages' = {}
               /\ timer' = "armed"
               /\ UNCHANGED wakers
       ELSE /\ wakers' = wakers \cup {"block"}
            /\ UNCHANGED <<canonical_block_stream, canon_seen, current_height,
                           validators, pden, state_transition, wrr_block_number,
                           broadcasted_messages, timer>>
    /\ UNCHANGED <<network, events_seen, strom_consensus_event, woken>>
    /\ LiveFrame

\* poll: strom_consensus_event.poll_next_unpin(cx). Ready(Some) takes one event to
\* on_network_event; Pending leaves the waker with the channel.
LivePollEvent ==
    /\ cm_pc = "poll_event"
    /\ cm_pc' = "poll_state"
    /\ IF strom_consensus_event # << >>
       THEN \E r \in {on_network_event(Head(strom_consensus_event))} :
               /\ strom_consensus_event' = Tail(strom_consensus_event)
               /\ events_seen' = events_seen + 1
               /\ state_transition' = r.state_transition
               /\ broadcasted_messages' = r.broadcasted_messages
               /\ network' = r.network
               /\ UNCHANGED wakers
       ELSE /\ wakers' = wakers \cup {"event"}
            /\ UNCHANGED <<strom_consensus_event, events_seen, state_transition,
                           broadcasted_messages, network>>
    /\ UNCHANGED <<current_height, canon_seen, validators, pden, wrr_block_number,
                   canonical_block_stream, timer, woken>>
    /\ LiveFrame

\* poll: state_transition.poll_next_unpin(cx). Ready(Some) takes the next phase to
\* on_state_start; Pending leaves the waker with the round's timer. Then poll
\* returns Poll::Pending.
LivePollState ==
    /\ cm_pc = "poll_state"
    /\ IF timer = "fired" /\ poll_next_unpin(state_transition) # None
       THEN \E new_state \in {poll_next_unpin(state_transition)[1]} :
               \E r \in {on_state_start(new_state)} :
                  /\ state_transition' = new_state
                  /\ network' = r.network
                  /\ cm_pc' = IF r.panic THEN "panicked" ELSE "pending"
                  /\ timer' = IF poll_next_unpin(new_state) # None THEN "armed" ELSE "off"
                  /\ UNCHANGED wakers
       ELSE /\ wakers' = wakers \cup {"state"}
            /\ cm_pc' = "pending"
            /\ UNCHANGED <<state_transition, network, timer>>
    /\ UNCHANGED <<current_height, broadcasted_messages, canon_seen, events_seen,
                   validators, pden, wrr_block_number, canonical_block_stream,
                   strom_consensus_event, woken>>
    /\ LiveFrame

NextLive ==
    \/ \E n \in 1..MaxTarget : BlockArrives(n)
    \/ \E e \in LiveEvents : EventArrives(e)
    \/ TimerFires
    \/ Repoll
    \/ LivePollBlock
    \/ LivePollEvent
    \/ LivePollState

\* The executor polls a scheduled task, a poll runs to its return, and an armed
\* timer fires; nothing obliges a further item to arrive. The step of the first
\* source is enabled exactly while the poll is at that source and always leaves
\* it, so its weak fairness is that the poll is again and again not there.
SpecLive ==
    /\ InitLive
    /\ [][NextLive]_vars
    /\ WF_vars(Repoll)
    /\ []<>(cm_pc # "poll_block")
    /\ WF_vars(LivePollEvent)
    /\ WF_vars(LivePollState)
    /\ WF_vars(TimerFires)

\* C36: every notification and event queued on a source of the manager, and
\* every fired phase timer, is eventually handled, with the executor polling the
\* manager only when a waker it handed out has fired.
C36_QueuedItemsHandled ==
    /\ (canonical_block_stream # << >>) ~> (canonical_block_stream = << >>)
    /\ (strom_consensus_event # << >>) ~> (strom_consensus_event = << >>)
    /\ (timer = "fired") ~> (timer # "fired")

\* poll has returned Pending with an event still queued, no source holds a waker
\* that will fire and the task is not scheduled.
EventLeftWithoutWaker ==
    /\ cm_pc = "pending"
    /\ ~ woken
    /\ strom_consensus_event # << >>
    /\ canonical_block_stream = << >>
    /\ timer = "off"
    /\ "event" \notin wakers

\* C13: every canonical-block notification handled by the manager resets the
\* round, whatever its tip number: current_height is the tip's number, the round
\* state machine is in BidSubmission with that height and a leader taken from the
\* selector's validators, the dedup set is empty, and the manager goes on polling.
C13_EveryNotificationResets ==
    [][ \A n \in 0..MaxTarget :
           on_blockchain_state(CanonStateNotification(n)) =>
              /\ cm_pc' = "poll_event"
              /\ current_height' = n
              /\ state_transition'.state = "BidSubmission"
              /\ state_transition'.height = n
              /\ state_transition'.leader \in DOMAIN validators'
              /\ state_transition'.pre_proposals = << >>
              /\ broadcasted_messages' = {}
      ]_vars

\* C38: an inbound event that is already in the dedup set of the round is not
\* handed to on_strom_message again: the round state machine stays as it is and
\* nothing is sent.
C38_DuplicateNotDelivered ==
    [][ \A e \in Events :
           (PollEvent(e) /\ e \in broadcasted_messages)
           => /\ ~ on_network_event(e).delivered
              /\ state_transition' = state_transition
              /\ network' = network
      ]_vars

\* One event has come in twice in a round: it is in the dedup set and was gossiped
\* once, and the round state machine has collected it twice.
DuplicateDeliveredTwice ==
    /\ cm_pc = "poll_state"
    /\ events_seen = 2
    /\ Cardinality(broadcasted_messages) = 1
    /\ Len(network) = 1
    /\ Len(state_transition.pre_proposals) = 2
    /\ state_transition.pre_proposals[1] = state_transition.pre_proposals[2]

\* C14: an inbound event for another block height than current_height, or whose
\* payload comes from this node, changes nothing: nothing is sent, the dedup set,
\* the round state machine, the height and the selector stay as they are, and
\* the poll goes on to its next source.
C14_StaleOrOwnDropped ==
    [][ \A e \in Events :
           ( /\ PollEvent(e)
             /\ (e.block_height # current_height \/ e.source = my_id) )
           => /\ network' = network
              /\ broadcasted_messages' = broadcasted_messages
              /\ state_transition' = state_transition
              /\ current_height' = current_height
              /\ cm_pc' = "poll_state"
              /\ UNCHANGED <<validators, pden, wrr_block_number>>
      ]_vars

\* C14 witness: events have been taken in the first round and every one of them
\* was dropped.
C14_Witness ==
    /\ cm_pc = "poll_state"
    /\ canon_seen = 0
    /\ events_seen = MaxEvents
    /\ network = << >>
    /\ broadcasted_messages = {}
    /\ state_transition.pre_proposals = << >>

\* Number of times a message was handed to the network for broadcast.
BroadcastCount(net, msg) ==
    Cardinality({ i \in DOMAIN net : net[i].to = None /\ net[i].msg = msg })

\* C15: an event of another peer is re-broadcast at most once, and while the
\* manager runs an event of the current height has been re-broadcast exactly once
\* if it is in the dedup set and not at all otherwise, however often it came in;
\* a round reset leaves the dedup set empty.
C15_GossipOncePerRound ==
    [][ /\ \A e \in Events :
              e.source # my_id =>
                 /\ BroadcastCount(network', e) <= 1
                 /\ (e.block_height = current_height'
                        /\ cm_pc' \in {"pending", "poll_event", "poll_state"})
                    => /\ e \in broadcasted_messages' <=> BroadcastCount(network', e) = 1
                       /\ (PollEvent(e) => e \in broadcasted_messages')
        /\ \A n \in 0..MaxTarget :
              (on_blockchain_state(CanonStateNotification(n)) /\ cm_pc' = "poll_event")
              => broadcasted_messages' = {}
      ]_vars

\* C15 witness: a pre-proposal of another peer has come in twice in one round and
\* has been re-broadcast once.
C15_Witness ==
    \E e \in Events :
       /\ e.kind = "PrePropose"
       /\ e \in broadcasted_messages
       /\ state_transition.pre_proposals = <<e.source, e.source>>
       /\ BroadcastCount(network, e) = 1

C16_NonLeaderSilent ==
    /\ cm_pc = "pending"
    /\ state_transition.state = "Finalization"
    /\ state_transition.leader # my_id
    /\ \A i \in DOMAIN network : network[i].msg.kind # "Propose"

Phases == <<"BidSubmission", "BidAggregation", "Finalization">>

PhaseIndex(state) == CHOOSE i \in DOMAIN Phases : Phases[i] = state

\* C17: the round state machine is in one of the three phases; a step of the
\* manager keeps the phase or moves it to the next one, and the only step that
\* takes it back to BidSubmission is the round reset of a canonical-block
\* notification.
C17_PhasesForwardOnly ==
    [][ /\ state_transition'.state \in {Phases[i] : i \in DOMAIN Phases}
        /\ \/ PhaseIndex(state_transition'.state) = PhaseIndex(state_transition.state)
           \/ PhaseIndex(state_transition'.state)
                 = PhaseIndex(state_transition.state) + 1
           \/ /\ \E n \in 0..MaxTarget : on_blockchain_state(CanonStateNotification(n))
              /\ state_transition'.state = "BidSubmission"
        /\ (state_transition'.height = state_transition.height)
           => PhaseIndex(state_transition'.state) >= PhaseIndex(state_transition.state)
      ]_vars

\* C17 witness: the first round reached Finalization (this node's pre-proposal and
\* proposal of height 1 were sent) and a new canonical block has put the round
\* state machine back into BidSubmission.
C17_Witness ==
    /\ state_transition.state = "BidSubmission"
    /\ state_transition.height > 1
    /\ BroadcastCount(network, StromConsensusEvent("PrePropose", 1, my_id)) = 1
    /\ BroadcastCount(network, StromConsensusEvent("Propose", 1, my_id)) = 1

(***************************************************************************)
(* Pool: swap simulation and swap logs                                     *)
(* u128 and i128 are U128Bits wide. The tick bitmap is the set of the      *)
(* initialized ticks, one word covers every tick, tick_spacing is 1. The   *)
(* functions of uniswap_v3_math are an external crate and follow their     *)
(* contract on the price grid of get_sqrt_ratio_at_tick.                   *)
(***************************************************************************)
U128_MOD == 2 ^ U128Bits

I128_MIN == -(U128_MOD \div 2)

MIN_SQRT_RATIO == get_sqrt_ratio_at_tick(MIN_TICK)[1]

MAX_SQRT_RATIO == get_sqrt_ratio_at_tick(MAX_TICK)[1]

\* uniswap_v3_math::tick_math::get_tick_at_sqrt_ratio
get_tick_at_sqrt_ratio(sqrt_price) ==
    IF sqrt_price < MIN_SQRT_RATIO \/ sqrt_price >= MAX_SQRT_RATIO
    THEN None
    ELSE Some(sqrt_price - TickSpan - SqrtQ)

\* uniswap_v3_math::tick_bitmap::next_initialized_tick_within_one_word: the next
\* initialized tick at or below the tick (lte), or above it, else the end of the
\* word, not initialized.
next_initialized_tick_within_one_word(tick_bitmap, tick, lte) ==
    LET below == {t \in tick_bitmap : t <= tick}
        above == {t \in tick_bitmap : t > tick}
    IN  IF lte
        THEN IF below # {}
             THEN [tick_next |-> CHOOSE t \in below : \A u \in below : u <= t,
                   initialized |-> TRUE]
             ELSE [tick_next |-> MIN_TICK - 1, initialized |-> FALSE]
        ELSE IF above # {}
             THEN [tick_next |-> CHOOSE t \in above : \A u \in above : u >= t,
                   initialized |-> TRUE]
             ELSE [tick_next |-> MAX_TICK + 1, initialized |-> FALSE]

\* uniswap_v3_math::swap_math::compute_swap_step with the fee of the pool: the
\* price moves towards the target as far as the remaining amount pays for, an
\* amount being liquidity times the price difference; an exact-input step that
\* stops short of the target takes the rest of the input as fee.
pool_compute_swap_step(sqrt_ratio_current, sqrt_ratio_target, liquidity, amount_remaining, fee) ==
    LET zero_for_one == sqrt_ratio_current >= sqrt_ratio_target
        exact_in == amount_remaining >= 0
        full == liquidity * Abs(sqrt_ratio_current - sqrt_ratio_target)
        less_fee == (amount_remaining * (1000000 - fee)) \div 1000000
        budget == IF exact_in THEN less_fee ELSE -amount_remaining
        reached == budget >= full
        moved == IF reached THEN Abs(sqrt_ratio_current - sqrt_ratio_target)
                 ELSE budget \div liquidity
        next == IF zero_for_one THEN sqrt_ratio_current - moved
                ELSE sqrt_ratio_current + moved
        amount_in == IF reached THEN full
                     ELSE IF exact_in THEN liquidity * moved ELSE budget
        amount_out == IF reached THEN full
                      ELSE IF exact_in THEN liquidity * moved ELSE budget
    IN  [sqrt_price_next |-> next, amount_in |-> amount_in, amount_out |-> amount_out,
         fee_amount |-> IF exact_in /\ next # sqrt_ratio_target
                        THEN amount_remaining - amount_in
                        ELSE mul_div_rounding_up(amount_in, fee, 1000000 - fee)]

\* Info: what the pool keeps for an initialized tick.
Info(liquidity_gross, liquidity_net, initialized) ==
    [liquidity_gross |-> liquidity_gross, liquidity_net |-> liquidity_net,
     initialized |-> initialized]

SwapResult(err, amount0, amount1, liquidity, sqrt_price_x_96, tick) ==
    [err |-> err, amount0 |-> amount0, amount1 |-> amount1, liquidity |-> liquidity,
     sqrt_price_x_96 |-> sqrt_price_x_96, tick |-> tick]

SwapError(err) == SwapResult(err, 0, 0, 0, 0, 0)

\* The liquidity after crossing an initialized tick: the tick's liquidity_net,
\* negated (i128) for zero_for_one, is taken off with checked_sub when negative
\* and added with + (u128) otherwise. err is "" unless the crossing fails.
cross_tick_liquidity(p, tick_next, liquidity, zero_for_one, checks) ==
    LET info_net == IF tick_next \in DOMAIN p.ticks
                    THEN p.ticks[tick_next].liquidity_net ELSE 0
        neg_overflow == zero_for_one /\ info_net = I128_MIN
        liquidity_net == IF zero_for_one
                         THEN (IF info_net = I128_MIN THEN I128_MIN ELSE -info_net)
                         ELSE info_net
        \* (-liquidity_net) as u128
        magnitude == IF liquidity_net = I128_MIN THEN U128_MOD \div 2
                     ELSE -liquidity_net
    IN  IF neg_overflow /\ checks
        THEN [err |-> "panic", liquidity |-> liquidity]
        ELSE IF liquidity_net < 0
        THEN IF liquidity_net = I128_MIN /\ checks
             THEN [err |-> "panic", liquidity |-> liquidity]
             ELSE IF liquidity < magnitude
             THEN [err |-> "LiquidityUnderflow", liquidity |-> liquidity]
             ELSE [err |-> "", liquidity |-> liquidity - magnitude]
        ELSE IF liquidity + liquidity_net >= U128_MOD
        THEN IF checks
             THEN [err |-> "panic", liquidity |-> liquidity]
             ELSE [err |-> "", liquidity |-> (liquidity + liquidity_net) % U128_MOD]
        ELSE [err |-> "", liquidity |-> liquidity + liquidity_net]

\* The locals of the while loop of _simulate_swap; err is "" while no step failed.
SwapLocals(err, amount_specified_remaining, amount_calculated, sqrt_price_x_96, tick, liquidity) ==
    [err |-> err, amount_specified_remaining |-> amount_specified_remaining,
     amount_calculated |-> amount_calculated, sqrt_price_x_96 |-> sqrt_price_x_96,
     tick |-> tick, liquidity |-> liquidity]

\* The condition of the while loop of _simulate_swap.
loop_condition(run) ==
    /\ run.st.amount_specified_remaining # 0
    /\ run.st.sqrt_price_x_96 # run.sqrt_price_limit_x96

\* Variant of swap_step below whose target is the next tick's price whatever the
\* limit is.
swap_step_no_limit(p, zero_for_one, sqrt_price_limit_x96, st) ==
    LET nxt == next_initialized_tick_within_one_word(p.tick_bitmap, st.tick,
                                                     zero_for_one)
        tick_next == Max(MIN_TICK, Min(MAX_TICK, nxt.tick_next))
        sqrt_price_next_x96 == get_sqrt_ratio_at_tick(tick_next)[1]
    IN  [tick_next |-> tick_next, initialized |-> nxt.initialized,
         sqrt_price_next_x96 |-> sqrt_price_next_x96,
         step |-> pool_compute_swap_step(st.sqrt_price_x_96, sqrt_price_next_x96,
                                         st.liquidity, st.amount_specified_remaining,
                                         p.fee)]

\* First half of one iteration: next tick, target price and compute_swap_step.
swap_step(p, zero_for_one, sqrt_price_limit_x96, st) ==
    LET nxt == next_initialized_tick_within_one_word(p.tick_bitmap, st.tick,
                                                     zero_for_one)
        tick_next == Max(MIN_TICK, Min(MAX_TICK, nxt.tick_next))
        sqrt_price_next_x96 == get_sqrt_ratio_at_tick(tick_next)[1]
        target_sqrt_ratio ==
            IF (zero_for_one /\ sqrt_price_next_x96 < sqrt_price_limit_x96)
               \/ (~zero_for_one /\ sqrt_price_next_x96 > sqrt_price_limit_x96)
            THEN sqrt_price_limit_x96
            ELSE sqrt_price_next_x96
    IN  [tick_next |-> tick_next, initialized |-> nxt.initialized,
         sqrt_price_next_x96 |-> sqrt_price_next_x96,
         step |-> pool_compute_swap_step(st.sqrt_price_x_96, target_sqrt_ratio,
                                         st.liquidity, st.amount_specified_remaining,
                                         p.fee)]

\* Second half of one iteration: the amounts, the crossing of an initialized tick
\* and the new tick.
after_step(p, zero_for_one, exact_input, checks, st, s) ==
    LET new_remaining ==
            IF exact_input
            THEN st.amount_specified_remaining - (s.step.amount_in + s.step.fee_amount)
            ELSE st.amount_specified_remaining + s.step.amount_out
        new_calculated ==
            IF exact_input
            THEN st.amount_calculated - s.step.amount_out
            ELSE st.amount_calculated + (s.step.amount_in + s.step.fee_amount)
        crossed == IF s.initialized
                   THEN cross_tick_liquidity(p, s.tick_next, st.liquidity, zero_for_one,
                                             checks)
                   ELSE [err |-> "", liquidity |-> st.liquidity]
        at_tick == get_tick_at_sqrt_ratio(s.step.sqrt_price_next)
    IN  IF s.step.sqrt_price_next = s.sqrt_price_next_x96
        THEN SwapLocals(crossed.err, new_remaining, new_calculated,
                        s.step.sqrt_price_next,
                        IF zero_for_one THEN s.tick_next - 1 ELSE s.tick_next,
                        crossed.liquidity)
        ELSE IF s.step.sqrt_price_next # st.sqrt_price_x_96
        THEN SwapLocals(IF at_tick = None THEN "SqrtPriceOutOfBounds" ELSE "",
                        new_remaining, new_calculated, s.step.sqrt_price_next,
                        IF at_tick = None THEN st.tick ELSE at_tick[1], st.liquidity)
        ELSE SwapLocals("", new_remaining, new_calculated, s.step.sqrt_price_next,
                        st.tick, st.liquidity)

\* The while loop of _simulate_swap from the locals st on: the locals it ends with.
RECURSIVE swap_loop(_, _, _, _, _, _)
swap_loop(p, zero_for_one, exact_input, sqrt_price_limit_x96, checks, st) ==
    IF st.err # ""
       \/ ~(st.amount_specified_remaining # 0
               /\ st.sqrt_price_x_96 # sqrt_price_limit_x96)
    THEN st
    ELSE CHOOSE end \in
            { swap_loop(p, zero_for_one, exact_input, sqrt_price_limit_x96, checks, n) :
                 n \in { after_step(p, zero_for_one, exact_input, checks, st, s) :
                            s \in {swap_step(p, zero_for_one, sqrt_price_limit_x96, st)} } } :
            TRUE

\* The result _simulate_swap builds from the locals the loop ended with.
swap_result_of(zero_for_one, exact_input, amount_specified, end) ==
    IF end.err # ""
    THEN SwapError(end.err)
    ELSE IF zero_for_one = exact_input
    THEN SwapResult("", amount_specified - end.amount_specified_remaining,
                    end.amount_calculated, end.liquidity, end.sqrt_price_x_96, end.tick)
    ELSE SwapResult("", end.amount_calculated,
                    amount_specified - end.amount_specified_remaining,
                    end.liquidity, end.sqrt_price_x_96, end.tick)

\* EnhancedUniswapPool::_simulate_swap(token_in, amount_specified,
\* sqrt_price_limit_x96) on pool p.
_simulate_swap(p, token_in, amount_specified, limit, checks) ==
    LET zero_for_one == token_in = p.token_a
        exact_input == amount_specified > 0
        sqrt_price_limit_x96 ==
            IF limit # None THEN limit[1]
            ELSE IF zero_for_one THEN MIN_SQRT_RATIO + 1 ELSE MAX_SQRT_RATIO - 1
    IN  IF amount_specified = 0
        THEN SwapError("ZeroAmountSpecified")
        ELSE IF (zero_for_one /\ (sqrt_price_limit_x96 >= p.sqrt_price
                                     \/ sqrt_price_limit_x96 <= MIN_SQRT_RATIO))
                \/ (~zero_for_one /\ (sqrt_price_limit_x96 <= p.sqrt_price
                                         \/ sqrt_price_limit_x96 >= MAX_SQRT_RATIO))
        THEN SwapError("InvalidSqrtPriceLimit")
        ELSE CHOOSE r \in
                { swap_result_of(zero_for_one, exact_input, amount_specified, end) :
                     end \in { swap_loop(p, zero_for_one, exact_input,
                                         sqrt_price_limit_x96, checks,
                                         SwapLocals("", amount_specified, 0, p.sqrt_price,
                                                    p.tick, p.liquidity)) } } :
                TRUE

Returned(call, r) ==
    [call |-> call, err |-> r.err, amount0 |-> r.amount0, amount1 |-> r.amount1]

\* simulate_swap(&self, ..): the result for the caller; the pool is borrowed
\* immutably.
simulate_swap(p, token_in, amount_specified, limit, checks) ==
    [pool |-> p,
     ret |-> Returned("simulate_swap",
                      _simulate_swap(p, token_in, amount_specified, limit, checks))]

\* What simulate_swap_mut stores of a swap result.
commit_swap_result(p, swap_result) ==
    [p EXCEPT !.liquidity = swap_result.liquidity,
              !.sqrt_price = swap_result.sqrt_price_x_96,
              !.tick = swap_result.tick]

\* Variant of simulate_swap_mut below that stores the result before looking at
\* the error.
simulate_swap_mut_eager(p, token_in, amount_specified, limit, checks) ==
    CHOOSE out \in
       { [pool |-> commit_swap_result(p, swap_result),
          ret |-> Returned("simulate_swap_mut", swap_result)] :
            swap_result \in {_simulate_swap(p, token_in, amount_specified, limit, checks)} } :
       TRUE

\* simulate_swap_mut(&mut self, ..): ? returns the error first, then liquidity,
\* sqrt_price and tick are stored.
simulate_swap_mut(p, token_in, amount_specified, limit, checks) ==
    CHOOSE out \in
       { [pool |-> IF swap_result.err # "" THEN p
                   ELSE commit_swap_result(p, swap_result),
          ret |-> Returned("simulate_swap_mut", swap_result)] :
            swap_result \in {_simulate_swap(p, token_in, amount_specified, limit, checks)} } :
       TRUE

\* A decoded IUniswapV3Pool::Swap event, or a log of another signature.
SwapLog(amount0, amount1, sqrtPriceX96, liquidity, tick) ==
    [kind |-> "swap", amount0 |-> amount0, amount1 |-> amount1,
     sqrtPriceX96 |-> sqrtPriceX96, liquidity |-> liquidity, tick |-> tick]

\* _sync_from_swap_log: the pool takes price, liquidity and tick from the event.
_sync_from_swap_log(p, swap_event) ==
    [p EXCEPT !.sqrt_price = swap_event.sqrtPriceX96,
              !.liquidity = swap_event.liquidity,
              !.tick = swap_event.tick]

\* The combinations sync_swap_with_sim tries, in its order.
combinations(p, swap_event) ==
    << <<p.token_b, swap_event.amount1>>, <<p.token_a, swap_event.amount0>>,
       <<p.token_a, swap_event.amount1>>, <<p.token_b, swap_event.amount0>> >>

\* The loop of sync_swap_with_sim from combination i on, sims[i] being what
\* simulate_swap returns for it: the first one that reproduces the amounts of the
\* event is committed; a panic of a simulation ends the call.
RECURSIVE try_combinations(_, _, _, _)
try_combinations(p, swap_event, sims, i) ==
    IF i > Len(sims)
    THEN [pool |-> p, err |-> "SwapSimulationFailed"]
    ELSE IF sims[i].err = "panic"
    THEN [pool |-> p, err |-> "panic"]
    ELSE IF sims[i].err = "" /\ sims[i].amount0 = swap_event.amount0
                             /\ sims[i].amount1 = swap_event.amount1
    THEN [pool |-> commit_swap_result(p, sims[i]), err |-> ""]
    ELSE try_combinations(p, swap_event, sims, i + 1)

\* sync_swap_with_sim: simulate_swap per combination with the event's price as
\* limit, simulate_swap_mut for the one that matches, else SwapSimulationFailed.
sync_swap_with_sim(p, swap_event, checks) ==
    CHOOSE out \in
       { try_combinations(p, swap_event, sims, 1) :
            sims \in { << _simulate_swap(p, p.token_b, swap_event.amount1,
                                         Some(swap_event.sqrtPriceX96), checks),
                          _simulate_swap(p, p.token_a, swap_event.amount0,
                                         Some(swap_event.sqrtPriceX96), checks),
                          _simulate_swap(p, p.token_a, swap_event.amount1,
                                         Some(swap_event.sqrtPriceX96), checks),
                          _simulate_swap(p, p.token_b, swap_event.amount0,
                                         Some(swap_event.sqrtPriceX96), checks) >> } } :
       TRUE

\* sync_from_swap_log: verify mode or not.
sync_from_swap_log(p, swap_event, checks) ==
    IF p.sync_swap_with_sim
    THEN sync_swap_with_sim(p, swap_event, checks)
    ELSE [pool |-> _sync_from_swap_log(p, swap_event), err |-> ""]

\* sync_from_log on the fields of the pool, for a Swap log and for a log of an
\* unknown signature: the Swap branch calls _sync_from_swap_log.
pool_sync_from_log(p, log) ==
    IF log.kind = "swap"
    THEN [pool |-> _sync_from_swap_log(p, log), err |-> ""]
    ELSE [pool |-> p, err |-> "InvalidEventSignature"]

Liquidities == {0, 2, U128_MOD - 1}

LiquidityNets == {-2, 1}

SwapTicks == MIN_TICK..MAX_TICK

\* The tick tables of the pools: no initialized tick, one, or a pair around 0.
TickTables ==
    { [t \in DOMAIN f |-> Info(Abs(f[t]), f[t], TRUE)] :
         f \in UNION { [S -> LiquidityNets] :
                          S \in {{}} \cup {{t} : t \in SwapTicks}
                                    \cup {{-t, t} : t \in 1..MAX_TICK} } }

\* The pools a call is made on: the price is the one of the tick, the bitmap
\* holds the ticks that have an entry in ticks.
SimPools ==
    { [token_a |-> "A", token_b |-> "B",
       sqrt_price |-> get_sqrt_ratio_at_tick(t)[1], tick |-> t, liquidity |-> l,
       fee |-> fee_pips, tick_spacing |-> 1, ticks |-> f, tick_bitmap |-> DOMAIN f,
       sync_swap_with_sim |-> v] :
         t \in MIN_TICK..(MAX_TICK - 1), l \in Liquidities, v \in BOOLEAN,
         f \in TickTables }

SqrtPrices == MIN_SQRT_RATIO..MAX_SQRT_RATIO

SwapAmounts == (-MaxSwap)..MaxSwap

\* The logs handed to the pool: Swap events whose tick is the one of their price,
\* and a log of an unknown signature.
SwapLogs ==
    { SwapLog(a0, a1, price, l, get_tick_at_sqrt_ratio(price)[1]) :
         a0 \in SwapAmounts, a1 \in SwapAmounts,
         price \in MIN_SQRT_RATIO..(MAX_SQRT_RATIO - 1),
         l \in Liquidities \ {U128_MOD - 1} }

BadLog == [kind |-> "bad"]

InitSwap ==
    /\ ToBUnused
    /\ FSUnused
    /\ LiveUnused
    /\ ConUnused
    /\ PMUnused
    /\ WRRUnused
    /\ CMUnused
    /\ sim_pool \in SimPools
    /\ overflow_checks \in BOOLEAN
    /\ sim_pc = "idle"
    /\ sim_ret = [call |-> "", err |-> "", amount0 |-> 0, amount1 |-> 0]
    /\ sim_run = NoRun
    /\ sim_calls = 0

SimFrame ==
    UNCHANGED <<overflow_checks, sim_run, sim_calls, pmvars, wrrvars, tobvars, cmvars, convars, livevars, fsvars>>

\* pool.simulate_swap(token_in, amount_specified, sqrt_price_limit_x96)
SimulateSwap(token_in, amount_specified, limit) ==
    /\ sim_pc = "idle"
    /\ \E r \in {simulate_swap(sim_pool, token_in, amount_specified, limit,
                                overflow_checks)} :
           /\ sim_pool' = r.pool
           /\ sim_ret' = r.ret
           /\ sim_pc' = IF r.ret.err = "panic" THEN "panicked" ELSE "returned"
    /\ SimFrame

\* pool.simulate_swap_mut(token_in, amount_specified, sqrt_price_limit_x96)
SimulateSwapMut(token_in, amount_specified, limit) ==
    /\ sim_pc = "idle"
    /\ \E r \in {simulate_swap_mut(sim_pool, token_in, amount_specified, limit,
                                    overflow_checks)} :
           /\ sim_pool' = r.pool
           /\ sim_ret' = r.ret
           /\ sim_pc' = IF r.ret.err = "panic" THEN "panicked" ELSE "returned"
    /\ SimFrame

\* pool.sync_from_swap_log(log)
SyncFromSwapLog(log) ==
    /\ sim_pc = "idle"
    /\ \E r \in {sync_from_swap_log(sim_pool, log, overflow_checks)} :
           /\ sim_pool' = r.pool
           /\ sim_ret' = [call |-> "sync_from_swap_log", err |-> r.err,
                          amount0 |-> 0, amount1 |-> 0]
           /\ sim_pc' = IF r.err = "panic" THEN "panicked" ELSE "returned"
    /\ SimFrame

\* pool.sync_from_log(log), as handle_state_changes_from_logs calls it
SyncFromLog(log) ==
    /\ sim_pc = "idle"
    /\ \E r \in {pool_sync_from_log(sim_pool, log)} :
           /\ sim_pool' = r.pool
           /\ sim_ret' = [call |-> "sync_from_log", err |-> r.err,
                          amount0 |-> 0, amount1 |-> 0]
           /\ sim_pc' = "returned"
    /\ SimFrame

NextSwap ==
    \/ \E token_in \in {"A", "B"}, a \in SwapAmounts,
          limit \in {None} \cup {Some(x) : x \in SqrtPrices} :
          SimulateSwap(token_in, a, limit)
    \/ \E token_in \in {"A", "B"}, a \in SwapAmounts,
          limit \in {None} \cup {Some(x) : x \in SqrtPrices} :
          SimulateSwapMut(token_in, a, limit)
    \/ \E log \in SwapLogs : SyncFromSwapLog(log)
    \/ \E log \in SwapLogs \cup {BadLog} : SyncFromLog(log)

SpecSwap == InitSwap /\ [][NextSwap]_vars


\* The fields of a pool simulate_swap_mut may store.
SwapFields(p) == <<p.sqrt_price, p.tick, p.liquidity>>

\* The fields of a pool no swap call may touch.
FrameFields(p) ==
    <<p.token_a, p.token_b, p.fee, p.tick_spacing, p.ticks, p.tick_bitmap,
      p.sync_swap_with_sim>>

\* C18: simulate_swap never changes the pool; simulate_swap_mut changes at most
\* sqrt_price, tick and liquidity, never ticks, tick_bitmap or the tokens, and
\* only when the simulation succeeded; a call of either that returns an error
\* leaves the pool exactly as it was.
C18_SimulateThenCommit ==
    [][ /\ sim_ret'.call = "simulate_swap" => sim_pool' = sim_pool
        /\ sim_ret'.call = "simulate_swap_mut" =>
              /\ FrameFields(sim_pool') = FrameFields(sim_pool)
              /\ sim_ret'.err # "" => sim_pool' = sim_pool ]_vars

\* A simulate_swap_mut that succeeded, moved amounts and crossed a tick, so that
\* the pool holds a liquidity no pool starts with.
C18_Witness ==
    /\ sim_pc = "returned"
    /\ sim_ret.call = "simulate_swap_mut"
    /\ sim_ret.err = ""
    /\ sim_ret.amount0 # 0
    /\ sim_pool.liquidity \notin Liquidities

\* C19: in verify mode a Swap log applied through sync_from_log is not trusted:
\* price, tick and liquidity are those of the simulate_swap over the candidate
\* combinations that reproduces amount0 and amount1 of the log, and when none
\* does the call returns SwapSimulationFailed and the pool keeps its price, tick
\* and liquidity.
C19_VerifyModeSimulates ==
    [][ (sim_pool.sync_swap_with_sim /\ sim_ret'.call = "sync_from_log") =>
           \A log \in SwapLogs :
              SyncFromLog(log) =>
                 \E r \in {sync_swap_with_sim(sim_pool, log, overflow_checks)} :
                    \/ r.err = "panic"
                    \/ /\ sim_ret'.err = r.err
                       /\ sim_pool' = r.pool
                       /\ r.err = "SwapSimulationFailed" =>
                             SwapFields(sim_pool') = SwapFields(sim_pool) ]_vars

\* The initialized ticks a swap crosses that starts at tick from and ends at
\* tick to: those it passes going down (token_a in) or going up.
CrossedTicks(p, from, to) ==
    IF to < from
    THEN {t \in DOMAIN p.ticks : to < t /\ t <= from}
    ELSE {t \in DOMAIN p.ticks : from < t /\ t <= to}

\* The liquidity_net of the ticks, sign-flipped when token_a is the input.
DirectionAdjusted(p, zero_for_one) ==
    [t \in DOMAIN p.ticks |-> IF zero_for_one THEN -p.ticks[t].liquidity_net
                               ELSE p.ticks[t].liquidity_net]

\* The running sum of the liquidity of pool p and the direction-adjusted
\* liquidity_net of the ticks crossed by a swap that ends at tick to.
RunningSum(p, to) ==
    p.liquidity + SumOver(DirectionAdjusted(p, to < p.tick), CrossedTicks(p, p.tick, to))

\* C20: in every successful result of a simulation the liquidity, which
\* simulate_swap_mut stores in the pool, is the running sum of the crossed ticks'
\* direction-adjusted liquidity_net, never a wrapped or negative value.
C20_LiquidityIsRunningSum ==
    [][ (sim_ret'.call = "simulate_swap_mut" /\ sim_ret'.err = "") =>
           /\ sim_pool'.liquidity >= 0
           /\ sim_pool'.liquidity = RunningSum(sim_pool, sim_pool'.tick) ]_vars

\* The same for the pools whose liquidity leaves room for every liquidity_net:
\* there the only error of a tick crossing is LiquidityUnderflow.
C20_RunningSumInRange ==
    [][ (sim_ret'.call = "simulate_swap_mut" /\ sim_pool.liquidity < U128_MOD - 2) =>
           /\ sim_ret'.err \in {"", "LiquidityUnderflow", "ZeroAmountSpecified",
                                "InvalidSqrtPriceLimit"}
           /\ sim_ret'.err = "" =>
                 sim_pool'.liquidity = RunningSum(sim_pool, sim_pool'.tick) ]_vars


(***************************************************************************)
(* Pool: _simulate_swap one loop iteration at a time.  sim_pc is "loop"    *)
(* while the call is inside its while loop, sim_run holds its arguments    *)
(* and locals.                                                             *)
(***************************************************************************)
\* The pools of InitSwap; the call does not read sync_swap_with_sim.
InitSwapRun == InitSwap /\ ~sim_pool.sync_swap_with_sim

RunFrame ==
    UNCHANGED <<sim_pool, overflow_checks, sim_calls, pmvars, wrrvars, tobvars, cmvars, convars, livevars, fsvars>>

\* simulate_swap up to its while loop: the two argument checks, the limit and
\* the initial locals.
SwapEnter(token_in, amount_specified, limit) ==
    /\ sim_pc = "idle"
    /\ LET zero_for_one == token_in = sim_pool.token_a
           sqrt_price_limit_x96 ==
               IF limit # None THEN limit[1]
               ELSE IF zero_for_one THEN MIN_SQRT_RATIO + 1 ELSE MAX_SQRT_RATIO - 1
           invalid ==
               \/ zero_for_one /\ (sqrt_price_limit_x96 >= sim_pool.sqrt_price
                                      \/ sqrt_price_limit_x96 <= MIN_SQRT_RATIO)
               \/ ~zero_for_one /\ (sqrt_price_limit_x96 <= sim_pool.sqrt_price
                                       \/ sqrt_price_limit_x96 >= MAX_SQRT_RATIO)
       IN  IF amount_specified = 0 \/ invalid
           THEN /\ sim_pc' = "returned"
                /\ sim_ret' = Returned("simulate_swap",
                                       SwapError(IF amount_specified = 0
                                                 THEN "ZeroAmountSpecified"
                                                 ELSE "InvalidSqrtPriceLimit"))
                /\ UNCHANGED sim_run
           ELSE /\ sim_pc' = "loop"
                /\ sim_run' = [zero_for_one |-> zero_for_one,
                               exact_input |-> amount_specified > 0,
                               amount_specified |-> amount_specified,
                               sqrt_price_limit_x96 |-> sqrt_price_limit_x96,
                               st |-> SwapLocals("", amount_specified, 0,
                                                 sim_pool.sqrt_price, sim_pool.tick,
                                                 sim_pool.liquidity)]
                /\ UNCHANGED sim_ret
    /\ RunFrame

\* One iteration of the while loop; an error of the iteration returns (?), an
\* overflow panics in a build with overflow checks.
SwapIterate ==
    /\ sim_pc = "loop"
    /\ loop_condition(sim_run)
    /\ \E n \in { after_step(sim_pool, sim_run.zero_for_one, sim_run.exact_input,
                             overflow_checks, sim_run.st, s) :
                     s \in {swap_step(sim_pool, sim_run.zero_for_one,
                                      sim_run.sqrt_price_limit_x96, sim_run.st)} } :
          IF n.err # ""
          THEN /\ sim_pc' = IF n.err = "panic" THEN "panicked" ELSE "returned"
               /\ sim_ret' = Returned("simulate_swap", SwapError(n.err))
               /\ UNCHANGED sim_run
          ELSE /\ sim_run' = [sim_run EXCEPT !.st = n]
               /\ UNCHANGED <<sim_pc, sim_ret>>
    /\ RunFrame

\* The loop condition is false: the amounts are built and returned.
SwapExit ==
    /\ sim_pc = "loop"
    /\ ~loop_condition(sim_run)
    /\ sim_pc' = "returned"
    /\ sim_ret' = Returned("simulate_swap",
                           swap_result_of(sim_run.zero_for_one, sim_run.exact_input,
                                          sim_run.amount_specified, sim_run.st))
    /\ UNCHANGED sim_run
    /\ RunFrame

NextSwapRun ==
    \/ \E token_in \in {"A", "B"}, a \in SwapAmounts,
          limit \in {None} \cup {Some(x) : x \in SqrtPrices} :
          SwapEnter(token_in, a, limit)
    \/ SwapIterate
    \/ SwapExit

\* The call is sequential code: an iteration that can run does run.
SpecSwapRun ==
    InitSwapRun /\ [][NextSwapRun]_vars /\ WF_vars(SwapIterate) /\ WF_vars(SwapExit)

\* The price of the run is not beyond its limit in the trade direction.
WithinLimit(run) ==
    IF run.zero_for_one
    THEN run.st.sqrt_price_x_96 >= run.sqrt_price_limit_x96
    ELSE run.st.sqrt_price_x_96 <= run.sqrt_price_limit_x96

\* C21: simulate_swap always terminates; the loop goes on exactly while the
\* remaining amount is not zero and the price is not the limit, so a successful
\* run has stopped with one of the two; the limit is MIN_SQRT_RATIO + 1 (token_a
\* in) or MAX_SQRT_RATIO - 1 when none is given; the price never lies beyond the
\* limit in the trade direction.
C21_SwapTerminates ==
    /\ [](sim_pc = "loop" => WithinLimit(sim_run))
    /\ []((sim_pc = "returned" /\ sim_ret.err = "") =>
             (~loop_condition(sim_run) /\ WithinLimit(sim_run)))
    /\ [][ /\ (sim_pc = "loop" /\ sim_pc' = "loop") => loop_condition(sim_run)
           /\ (sim_pc = "idle" /\ sim_pc' = "loop") =>
                 \A token_in \in {"A", "B"}, a \in SwapAmounts :
                    SwapEnter(token_in, a, None) =>
                       sim_run'.sqrt_price_limit_x96 =
                          IF token_in = sim_pool.token_a THEN MIN_SQRT_RATIO + 1
                          ELSE MAX_SQRT_RATIO - 1 ]_vars
    /\ (sim_pc = "loop") ~> (sim_pc \in {"returned", "panicked"})

\* A successful run that stopped at its limit, two ticks or more away from where
\* it started, with part of the amount left.
C21_Witness ==
    /\ sim_pc = "returned"
    /\ sim_ret.err = ""
    /\ sim_run.st.sqrt_price_x_96 = sim_run.sqrt_price_limit_x96
    /\ sim_run.st.amount_specified_remaining # 0
    /\ Abs(sim_run.st.tick - sim_pool.tick) >= 2

(***************************************************************************)
(* Pool: positions.  Mint and Burn logs reach modify_position, which       *)
(* updates the two ticks of the position, the bitmap and the active        *)
(* liquidity.  The bitmap is the set of the compressed ticks whose bit is  *)
(* set.                                                                    *)
(***************************************************************************)
\* tick / tick_spacing on i32: the quotient is truncated towards zero.
i32_div(a, b) == IF a >= 0 THEN a \div b ELSE -((-a) \div b)

\* A value of an i128 computation without overflow checks.
wrapping_i128(x) == ((x - I128_MIN) % U128_MOD) + I128_MIN

\* update_tick(tick, liquidity_delta, upper) on the tick table: the entry is
\* created when absent, liquidity_gross and liquidity_net are updated; flipped
\* tells whether liquidity_gross went from zero to non-zero or back.
update_tick(ticks, tick, liquidity_delta, upper) ==
    LET info == IF tick \in DOMAIN ticks THEN ticks[tick] ELSE Info(0, 0, FALSE)
        liquidity_gross_before == info.liquidity_gross
        liquidity_gross_after == (liquidity_gross_before + liquidity_delta) % U128_MOD
        liquidity_net == IF upper
                         THEN wrapping_i128(info.liquidity_net - liquidity_delta)
                         ELSE wrapping_i128(info.liquidity_net + liquidity_delta)
        updated == Info(liquidity_gross_after, liquidity_net,
                        IF liquidity_gross_before = 0 THEN TRUE ELSE info.initialized)
    IN  [ticks |-> [t \in DOMAIN ticks \cup {tick} |->
                       IF t = tick THEN updated ELSE ticks[t]],
         flipped |-> (liquidity_gross_after = 0) # (liquidity_gross_before = 0)]

\* Variant of flip_tick below that sets the bit instead of toggling it.
flip_tick_set(tick_bitmap, tick, tick_spacing) ==
    tick_bitmap \cup {i32_div(tick, tick_spacing)}

\* flip_tick(tick, tick_spacing): the bit of tick / tick_spacing is toggled.
flip_tick(tick_bitmap, tick, tick_spacing) ==
    LET compressed == i32_div(tick, tick_spacing)
    IN  IF compressed \in tick_bitmap
        THEN tick_bitmap \ {compressed}
        ELSE tick_bitmap \cup {compressed}

\* The tick table without the entries of the ticks in gone.
remove_ticks(ticks, gone) == [t \in DOMAIN ticks \ gone |-> ticks[t]]

\* update_position(tick_lower, tick_upper, liquidity_delta)
update_position(p, tick_lower, tick_upper, liquidity_delta) ==
    IF liquidity_delta = 0
    THEN p
    ELSE LET lower == update_tick(p.ticks, tick_lower, liquidity_delta, FALSE)
             upper == update_tick(lower.ticks, tick_upper, liquidity_delta, TRUE)
             bitmap_lower == IF lower.flipped
                             THEN flip_tick(p.tick_bitmap, tick_lower, p.tick_spacing)
                             ELSE p.tick_bitmap
             bitmap_upper == IF upper.flipped
                             THEN flip_tick(bitmap_lower, tick_upper, p.tick_spacing)
                             ELSE bitmap_lower
             gone == IF liquidity_delta < 0
                     THEN (IF lower.flipped THEN {tick_lower} ELSE {})
                             \cup (IF upper.flipped THEN {tick_upper} ELSE {})
                     ELSE {}
         IN  [p EXCEPT !.ticks = remove_ticks(upper.ticks, gone),
                       !.tick_bitmap = bitmap_upper]

\* modify_position(tick_lower, tick_upper, liquidity_delta): update_position,
\* then the active liquidity when the tick is strictly between the two ticks.
\* The u128 arithmetic panics on overflow in a build with overflow checks and
\* wraps otherwise.
modify_position(p, tick_lower, tick_upper, liquidity_delta, checks) ==
    LET q == update_position(p, tick_lower, tick_upper, liquidity_delta)
        sum == q.liquidity + liquidity_delta
    IN  IF liquidity_delta # 0 /\ q.tick > tick_lower /\ q.tick < tick_upper
        THEN IF (sum < 0 \/ sum >= U128_MOD) /\ checks
             THEN [pool |-> q, err |-> "panic"]
             ELSE [pool |-> [q EXCEPT !.liquidity = sum % U128_MOD], err |-> ""]
        ELSE [pool |-> q, err |-> ""]

\* maxLiquidityPerTick of the pool contract: the liquidity_gross the chain lets
\* one tick reach.
maxLiquidityPerTick == (U128_MOD \div 2) - 1

TickSpacings == {1, 2}

\* The ticks of the positions in the Mint and Burn logs: multiples of the spacing.
PositionTicks(tick_spacing) == {tick_spacing * k : k \in -1..2}

\* The amounts of the Mint and Burn logs.
LogAmounts == 0..2

LiquidityDeltas == {a : a \in LogAmounts} \cup {-a : a \in LogAmounts}

\* The (tick_lower, tick_upper) of the positions in the logs of a pool.
Positions(p) ==
    {pos \in PositionTicks(p.tick_spacing) \X PositionTicks(p.tick_spacing) :
        pos[1] < pos[2]}

liquidity_gross_of(p, tick) ==
    IF tick \in DOMAIN p.ticks THEN p.ticks[tick].liquidity_gross ELSE 0

\* A pool without positions, the current tick around 0.
InitPos ==
    /\ ToBUnused
    /\ FSUnused
    /\ LiveUnused
    /\ ConUnused
    /\ PMUnused
    /\ WRRUnused
    /\ CMUnused
    /\ \E t \in -1..1, s \in TickSpacings :
          sim_pool = [token_a |-> "A", token_b |-> "B",
                      sqrt_price |-> get_sqrt_ratio_at_tick(t)[1], tick |-> t,
                      liquidity |-> 0, fee |-> fee_pips, tick_spacing |-> s,
                      ticks |-> << >>, tick_bitmap |-> {},
                      sync_swap_with_sim |-> FALSE]
    /\ overflow_checks \in BOOLEAN
    /\ sim_pc = "idle"
    /\ sim_ret = [call |-> "", err |-> "", amount0 |-> 0, amount1 |-> 0]
    /\ sim_run = NoRun
    /\ sim_calls = 0

\* pool.modify_position(tick_lower, tick_upper, liquidity_delta).
\* As on chain, a mint keeps liquidity_gross within maxLiquidityPerTick and a
\* burn takes no more than the liquidity_gross of its two ticks.
ModifyPosition(tick_lower, tick_upper, liquidity_delta) ==
    /\ sim_pc = "idle"
    /\ sim_calls < MaxPositions
    /\ \A t \in {tick_lower, tick_upper} :
          /\ liquidity_gross_of(sim_pool, t) + liquidity_delta >= 0
          /\ liquidity_gross_of(sim_pool, t) + liquidity_delta <= maxLiquidityPerTick
    /\ \E r \in {modify_position(sim_pool, tick_lower, tick_upper, liquidity_delta,
                                 overflow_checks)} :
          /\ sim_pool' = r.pool
          /\ sim_pc' = IF r.err = "panic" THEN "panicked" ELSE "idle"
          /\ sim_ret' = [call |-> "modify_position", err |-> r.err,
                         amount0 |-> 0, amount1 |-> 0]
    /\ sim_calls' = sim_calls + 1
    /\ UNCHANGED <<overflow_checks, sim_run, pmvars, wrrvars, tobvars, cmvars, convars, livevars, fsvars>>

\* sync_from_mint_log: modify_position with the amount of the Mint event.
SyncFromMintLog(tickLower, tickUpper, amount) ==
    ModifyPosition(tickLower, tickUpper, amount)

\* sync_from_burn_log: modify_position with the negated amount of the Burn event.
SyncFromBurnLog(tickLower, tickUpper, amount) ==
    ModifyPosition(tickLower, tickUpper, -amount)

\* LiqRange::new(lower_tick, upper_tick, liquidity): the range as given.
LiqRange(lower_tick, upper_tick, liquidity) ==
    [lower_tick |-> lower_tick, upper_tick |-> upper_tick, liquidity |-> liquidity]

\* The net liquidity active from lower_tick upward: the sum of liquidity_net over
\* the pool's ticks at or below it.
range_liquidity_net_sum(p, lower_tick) ==
    SumOver([t \in DOMAIN p.ticks |-> p.ticks[t].liquidity_net],
            {t \in DOMAIN p.ticks : t <= lower_tick})

\* let liquidity = tickwindow[0].1.liquidity_gross
range_liquidity(p, lower_tick) == p.ticks[lower_tick].liquidity_gross

\* get_market_snapshot: the ticks with a liquidity_net, sorted low to high, and one
\* range per window of two neighbours; the price is the pool's sqrt_price.
get_market_snapshot(p) ==
    LET T == {t \in DOMAIN p.ticks : p.ticks[t].liquidity_net # 0}
        tick_vec == [i \in 1..Cardinality(T) |->
                        CHOOSE t \in T : Cardinality({u \in T : u < t}) = i - 1]
    IN [ranges |-> [i \in 1..(Len(tick_vec) - 1) |->
                       LiqRange(tick_vec[i], tick_vec[i + 1],
                                range_liquidity(p, tick_vec[i]))],
        price |-> p.sqrt_price]

\* manager.get_market_snapshot(address) on the pool as the logs have left it.
GetMarketSnapshot ==
    /\ sim_pc = "idle"
    /\ \E r \in {get_market_snapshot(sim_pool)} :
          sim_ret' = [call |-> "get_market_snapshot", err |-> "", amount0 |-> 0,
                      amount1 |-> 0, ranges |-> r.ranges, price |-> r.price]
    /\ UNCHANGED <<sim_pool, overflow_checks, sim_pc, sim_run, sim_calls, pmvars, wrrvars,
                   tobvars, cmvars, convars, livevars, fsvars>>

NextPos ==
    \/ \E pos \in Positions(sim_pool), amount \in LogAmounts :
          SyncFromMintLog(pos[1], pos[2], amount)
    \/ \E pos \in Positions(sim_pool), amount \in LogAmounts :
          SyncFromBurnLog(pos[1], pos[2], amount)
    \/ GetMarketSnapshot

SpecPos == InitPos /\ [][NextPos]_vars

\* C40: the ranges of a market snapshot are sorted by tick and contiguous, each
\* carries the sum of liquidity_net over the pool's ticks at or below its lower
\* tick, and the range that contains the current tick carries the pool's liquidity.
C40_SnapshotRanges ==
    sim_ret.call = "get_market_snapshot" =>
       LET r == sim_ret.ranges
       IN /\ \A i \in DOMAIN r : r[i].lower_tick < r[i].upper_tick
          /\ \A i \in DOMAIN r : i + 1 \in DOMAIN r =>
                r[i].upper_tick = r[i + 1].lower_tick
          /\ \A i \in DOMAIN r :
                r[i].liquidity = range_liquidity_net_sum(sim_pool, r[i].lower_tick)
          /\ \A i \in DOMAIN r :
                (r[i].lower_tick <= sim_pool.tick /\ sim_pool.tick < r[i].upper_tick)
                   => r[i].liquidity = sim_pool.liquidity

\* The sorted and contiguous part of C40 alone.
SnapshotRangesContiguous ==
    sim_ret.call = "get_market_snapshot" =>
       LET r == sim_ret.ranges
       IN /\ \A i \in DOMAIN r : r[i].lower_tick < r[i].upper_tick
          /\ \A i \in DOMAIN r : i + 1 \in DOMAIN r =>
                r[i].upper_tick = r[i + 1].lower_tick

\* Two overlapping positions: the snapshot's range between their lower ticks'
\* successor carries less than the liquidity of both.
SnapshotRangeBelowNetLiquidity ==
    /\ sim_ret.call = "get_market_snapshot"
    /\ \E i \in DOMAIN sim_ret.ranges :
          sim_ret.ranges[i].liquidity <
             range_liquidity_net_sum(sim_pool, sim_ret.ranges[i].lower_tick)

C23_ActiveLiquidityInRange ==
    [][ \A pos \in Positions(sim_pool), liquidity_delta \in LiquidityDeltas :
           (ModifyPosition(pos[1], pos[2], liquidity_delta) /\ sim_pc' = "idle") =>
              IF liquidity_delta = 0
              THEN sim_pool' = sim_pool
              ELSE IF pos[1] <= sim_pool.tick /\ sim_pool.tick < pos[2]
              THEN sim_pool'.liquidity = sim_pool.liquidity + liquidity_delta
              ELSE sim_pool'.liquidity = sim_pool.liquidity ]_vars

====
